---- MODULE Spec2Model ----
(***************************************************************************)
(* Model of the wallethub ledger: DefaultWalletManager driving a           *)
(* WalletStore.  The store is the committed content of the wallet table    *)
(* and of the transaction table; every manager method is one action that   *)
(* runs its unit of work to commit (or returns an error and leaves the     *)
(* committed content alone).                                               *)
(***************************************************************************)
EXTENDS Integers, Sequences, FiniteSets, TLC

VARIABLES
    wallets,   \* wallet table: wallet id -> Wallet row
    txns,      \* transaction table in insertion order; a row's ID is its position
    last,      \* the last manager/store call: name, arguments, returned error and value
    inflight   \* caller -> the call it is in the middle of (its position and what it has read)

vars == <<wallets, txns, last, inflight>>

(***************************************************************************)
(* Bounds                                                                  *)
(***************************************************************************)
MaxWallets == 2      \* rows the wallet table can hold
MaxTxns == 3         \* rows the transaction table can hold
IntBits == 3         \* width of the signed integer standing for int64
MaxPendingTxns == 2  \* rows the transaction table can hold in SpecPending
MaxFaultTxns == 1    \* rows the transaction table can hold in SpecFaults
MaxSummaryTxns == 2  \* rows the transaction table can hold in SpecSummary
MaxMutatorTxns == 2  \* rows the transaction table can hold in SpecMutators
MaxIdentityTxns == 1 \* rows the transaction table can hold in SpecIdentity
MaxIsolationTxns == 3  \* rows the transaction table can hold in SpecIsolation
MaxUngatedTxns == 2  \* rows the transaction table can hold in SpecUngated
MaxResolveTxns == 2  \* rows the transaction table can hold in SpecResolve
MaxStaleTxns == 2    \* rows the transaction table can hold in SpecStale
MaxCloseTxns == 1    \* rows the transaction table can hold in SpecClose

WalletIDs == 1..MaxWallets
Users == {"u1", "u2"}
Names == {"n1", "n2"}
Descriptions == {"d1", "d2"}
References == {"r1", "r2"}
TxnReferences == {"ref"}
Reasons == {"why"}

MinInt == -(2 ^ (IntBits - 1))
MaxInt == (2 ^ (IntBits - 1)) - 1

\* amounts a caller passes: non-positive ones, the smallest and the largest positive one
Amounts == {-1, 0, 1, MaxInt}
PositiveAmounts == {a \in Amounts : a > 0}

(***************************************************************************)
(* Signed fixed-width arithmetic (Go int64 wraps around on overflow)       *)
(***************************************************************************)
Wrap(x) == ((x - MinInt) % (2 ^ IntBits)) + MinInt

Add64(a, b) == Wrap(a + b)

Sub64(a, b) == Wrap(a - b)

(***************************************************************************)
(* Errors: the package-level sentinels and values made by errors.New.      *)
(* id tells the values apart, msg is the text of Error().                  *)
(***************************************************************************)
NoErr == [id |-> "nil", msg |-> ""]

ErrWalletNotFound == [id |-> "ErrWalletNotFound", msg |-> "wallet not found"]

ErrWalletInactive == [id |-> "ErrWalletInactive", msg |-> "wallet is not active"]

ErrWalletFrozen == [id |-> "ErrWalletFrozen", msg |-> "wallet is frozen"]

ErrInsufficientBalance == [id |-> "ErrInsufficientBalance", msg |-> "insufficient balance"]

ErrTransactionNotFound == [id |-> "ErrTransactionNotFound", msg |-> "transaction not found"]

ErrInvalidAmount == [id |-> "ErrInvalidAmount", msg |-> "amount must be positive"]

ErrPendingTransactionOnly == [id |-> "ErrPendingTransactionOnly", msg |-> "only pending transactions can be modified"]

ErrorsNew(m) == [id |-> "errors.New", msg |-> m]

(***************************************************************************)
(* Rows                                                                    *)
(***************************************************************************)
NoWallet == [ID |-> 0]

NoTransaction == [ID |-> 0]

TransactionTypeCredit == "credit"

TransactionTypeDebit == "debit"

TransactionStatusPending == "pending"

TransactionStatusCompleted == "completed"

TransactionStatusFailed == "failed"

TransactionStatusCancelled == "cancelled"

\* generated reference shared by the two legs of a transfer: a fresh id
GeneratedReference(n) == <<"uuid", n>>

CallerReference(r) == <<"caller", r>>

(***************************************************************************)
(* Store reads                                                             *)
(***************************************************************************)
Min(S) == CHOOSE x \in S : \A y \in S : x <= y

\* FindWallet: the row with this id, or nil
FindWallet(w) == IF w \in DOMAIN wallets THEN wallets[w] ELSE NoWallet

\* FindWalletsByUserID: ids of the user's rows
FindWalletsByUserID(u) == {w \in DOMAIN wallets : wallets[w].UserID = u}

\* FindWalletByUserIDAndReference: First() of the matching rows (lowest id), or nil
FindWalletByUserIDAndReference(u, r) ==
    LET m == {w \in DOMAIN wallets : wallets[w].UserID = u /\ wallets[w].Reference = r}
    IN IF m = {} THEN NoWallet ELSE wallets[Min(m)]

\* FindPrimaryWalletByUserID: First() of the user's rows with is_primary and active
FindPrimaryWalletByUserID(u) ==
    LET m == {w \in DOMAIN wallets :
                 wallets[w].UserID = u /\ wallets[w].Primary /\ wallets[w].Active}
    IN IF m = {} THEN NoWallet ELSE wallets[Min(m)]

\* FindTransaction: the row with this id, or nil
FindTransaction(t) == IF t \in 1..Len(txns) THEN txns[t] ELSE NoTransaction

\* UpdateWallet: Save() writes the whole row under its primary key
UpdateWallet(tbl, row) == [tbl EXCEPT ![row.ID] = row]

\* SaveWallet: Create() inserts the row
SaveWallet(tbl, row) == (row.ID :> row) @@ tbl

\* SaveTransaction: Create() inserts the row
SaveTransaction(tbl, row) == Append(tbl, row)

\* UpdateTransaction: Save() writes the whole row under its primary key
UpdateTransaction(tbl, row) == [tbl EXCEPT ![row.ID] = row]

Call(op, args, err, res) == [op |-> op, args |-> args, err |-> err, res |-> res]

\* the callers that can be inside a call at the same time
Callers == {"c1", "c2"}

Idle == [pc |-> "idle"]

\* a call that runs from entry to return without another call in between
Return(op, args, err, res) ==
    /\ last' = Call(op, args, err, res)
    /\ UNCHANGED inflight

(***************************************************************************)
(* Initial state: an empty store                                           *)
(***************************************************************************)
Init ==
    /\ wallets = <<>>
    /\ txns = <<>>
    /\ last = Call("NewWalletManager", <<>>, NoErr, NoWallet)
    /\ inflight = [c \in Callers |-> Idle]

(***************************************************************************)
(* CreateWallet                                                            *)
(***************************************************************************)
\* GenerateID for a wallet: ids are handed out in creation order
GenerateID == Cardinality(DOMAIN wallets) + 1

\* CreateWallet writing the new name and description over the existing wallet
CreateWalletOverwrites(userID, name, description, reference) ==
    LET existingWallet == FindWalletByUserIDAndReference(userID, reference)
        updated == [existingWallet EXCEPT !.Name = name, !.Description = description]
        isPrimary == FindWalletsByUserID(userID) = {}
        wallet == [ID |-> GenerateID, UserID |-> userID, Name |-> name,
                   Description |-> description, Reference |-> reference,
                   Balance |-> 0, Primary |-> isPrimary, Active |-> TRUE,
                   Frozen |-> FALSE, RiskFlagged |-> FALSE]
    IN IF existingWallet # NoWallet
       THEN /\ wallets' = UpdateWallet(wallets, updated)
            /\ Return("CreateWallet", <<userID, name, description, reference>>,
                            NoErr, updated)
            /\ UNCHANGED txns
       ELSE /\ GenerateID \in WalletIDs
            /\ wallets' = SaveWallet(wallets, wallet)
            /\ Return("CreateWallet", <<userID, name, description, reference>>,
                            NoErr, wallet)
            /\ UNCHANGED txns

\* CreateWallet deciding primacy on the count of all wallets, not of the user's
CreateWalletGlobalCount(userID, name, description, reference) ==
    LET existingWallet == FindWalletByUserIDAndReference(userID, reference)
        isPrimary == DOMAIN wallets = {}
        wallet == [ID |-> GenerateID, UserID |-> userID, Name |-> name,
                   Description |-> description, Reference |-> reference,
                   Balance |-> 0, Primary |-> isPrimary, Active |-> TRUE,
                   Frozen |-> FALSE, RiskFlagged |-> FALSE]
    IN IF existingWallet # NoWallet
       THEN /\ Return("CreateWallet", <<userID, name, description, reference>>,
                            NoErr, existingWallet)
            /\ UNCHANGED <<wallets, txns>>
       ELSE /\ GenerateID \in WalletIDs
            /\ wallets' = SaveWallet(wallets, wallet)
            /\ Return("CreateWallet", <<userID, name, description, reference>>,
                            NoErr, wallet)
            /\ UNCHANGED txns

CreateWallet(userID, name, description, reference) ==
    LET existingWallet == FindWalletByUserIDAndReference(userID, reference)
        isPrimary == FindWalletsByUserID(userID) = {}
        wallet == [ID |-> GenerateID, UserID |-> userID, Name |-> name,
                   Description |-> description, Reference |-> reference,
                   Balance |-> 0, Primary |-> isPrimary, Active |-> TRUE,
                   Frozen |-> FALSE, RiskFlagged |-> FALSE]
    IN IF existingWallet # NoWallet
       THEN /\ Return("CreateWallet", <<userID, name, description, reference>>,
                            NoErr, existingWallet)
            /\ UNCHANGED <<wallets, txns>>
       ELSE /\ GenerateID \in WalletIDs
            /\ wallets' = SaveWallet(wallets, wallet)
            /\ Return("CreateWallet", <<userID, name, description, reference>>,
                            NoErr, wallet)
            /\ UNCHANGED txns

(***************************************************************************)
(* SetPrimaryWallet                                                        *)
(***************************************************************************)
SetPrimaryWallet(walletID) ==
    LET wallet == FindWallet(walletID)
        currentPrimary == FindPrimaryWalletByUserID(wallet.UserID)
        demoted == IF currentPrimary # NoWallet /\ currentPrimary.ID # walletID
                   THEN UpdateWallet(wallets, [currentPrimary EXCEPT !.Primary = FALSE])
                   ELSE wallets
    IN IF wallet = NoWallet
       THEN /\ Return("SetPrimaryWallet", <<walletID>>, ErrWalletNotFound, NoWallet)
            /\ UNCHANGED <<wallets, txns>>
       ELSE /\ wallets' = UpdateWallet(demoted, [wallet EXCEPT !.Primary = TRUE])
            /\ Return("SetPrimaryWallet", <<walletID>>, NoErr, NoWallet)
            /\ UNCHANGED txns

(***************************************************************************)
(* Units of work over a store whose calls can fail. failing names the      *)
(* store call that returns an error ("none": no call does). The writes of  *)
(* a unit of work are staged on its Txn; Commit makes them the committed   *)
(* content; the deferred Rollback runs when the method returns, on every   *)
(* path, after Commit on the success path.                                 *)
(***************************************************************************)
StoreFailure == [id |-> "store", msg |-> "store failure"]

\* the committed content of the two tables
Store == [wallets |-> wallets, txns |-> txns]

\* Begin: the unit of work knows the content it started from and its own writes
Begin(staged) == [begin |-> Store, staged |-> staged]

Commit(committed, txn) == txn.staged

\* a store that applies each write at once, so that Rollback has nothing to drop
RollbackKeepsWrites(committed, txn) == txn.staged

\* a Rollback that restores the content the unit of work started from
RollbackUndoesCommit(committed, txn) == txn.begin

Rollback(committed, txn) == committed

\* the committed content when the method returns err with these writes staged
UnitOfWork(err, staged) ==
    LET txn == Begin(staged)
        returned == IF err = NoErr THEN Commit(Store, txn) ELSE Store
    IN Rollback(returned, txn)

\* the writes staged when the call named failing returns its error: stages[i] is
\* the staged content once calls[i] has succeeded
StagedUntil(calls, stages, failing) ==
    IF \E i \in 1..Len(calls) : calls[i] = failing
    THEN LET k == CHOOSE i \in 1..Len(calls) : calls[i] = failing
         IN IF k = 1 THEN Store ELSE stages[k - 1]
    ELSE stages[Len(stages)]

Failings(calls) == {calls[i] : i \in 1..Len(calls)} \cup {"none"}

SetPrimaryWalletCalls ==
    <<"FindWallet", "FindPrimaryWalletByUserID", "UpdateWallet(currentPrimary)",
      "UpdateWallet(wallet)", "Commit">>

SetPrimaryWalletUnitOfWork(walletID, failing) ==
    LET wallet == FindWallet(walletID)
        currentPrimary == FindPrimaryWalletByUserID(wallet.UserID)
        demotes == currentPrimary # NoWallet /\ currentPrimary.ID # walletID
        demoted == IF demotes
                   THEN UpdateWallet(wallets, [currentPrimary EXCEPT !.Primary = FALSE])
                   ELSE wallets
        promoted == UpdateWallet(demoted, [wallet EXCEPT !.Primary = TRUE])
        err == IF failing = "FindWallet" THEN StoreFailure
               ELSE IF wallet = NoWallet THEN ErrWalletNotFound
               ELSE IF failing = "FindPrimaryWalletByUserID" THEN StoreFailure
               ELSE IF failing = "UpdateWallet(currentPrimary)" /\ demotes THEN StoreFailure
               ELSE IF failing = "UpdateWallet(wallet)" THEN StoreFailure
               ELSE IF failing = "Commit" THEN StoreFailure
               ELSE NoErr
        \* the writes made before the call returns
        staged == IF failing = "FindWallet" \/ wallet = NoWallet
                     \/ failing = "FindPrimaryWalletByUserID"
                     \/ (failing = "UpdateWallet(currentPrimary)" /\ demotes)
                  THEN Store
                  ELSE IF failing = "UpdateWallet(wallet)"
                       THEN [Store EXCEPT !.wallets = demoted]
                  ELSE [Store EXCEPT !.wallets = promoted]
        final == UnitOfWork(err, staged)
    IN /\ wallets' = final.wallets
       /\ txns' = final.txns
       /\ Return("SetPrimaryWallet", <<walletID, failing>>, err, NoWallet)

(***************************************************************************)
(* The single-field mutators: FindWallet, change one field, UpdateWallet.  *)
(* changed is the row read with that one field set.                        *)
(***************************************************************************)
Mutate(op, args, walletID, changed) ==
    IF FindWallet(walletID) = NoWallet
    THEN /\ Return(op, args, ErrorsNew("wallet not found"), NoWallet)
         /\ UNCHANGED <<wallets, txns>>
    ELSE /\ wallets' = UpdateWallet(wallets, changed)
         /\ Return(op, args, NoErr, NoWallet)
         /\ UNCHANGED txns

UpdateWalletActive(walletID, active) ==
    Mutate("UpdateWalletActive", <<walletID, active>>, walletID,
           [FindWallet(walletID) EXCEPT !.Active = active])

UpdateWalletName(walletID, name) ==
    Mutate("UpdateWalletName", <<walletID, name>>, walletID,
           [FindWallet(walletID) EXCEPT !.Name = name])

UpdateWalletDescription(walletID, description) ==
    Mutate("UpdateWalletDescription", <<walletID, description>>, walletID,
           [FindWallet(walletID) EXCEPT !.Description = description])

UpdateWalletReference(walletID, reference) ==
    Mutate("UpdateWalletReference", <<walletID, reference>>, walletID,
           [FindWallet(walletID) EXCEPT !.Reference = reference])

\* a freeze that also deactivates the wallet
FreezeWalletDeactivates(walletID, reason) ==
    Mutate("FreezeWallet", <<walletID, reason>>, walletID,
           [FindWallet(walletID) EXCEPT !.Frozen = TRUE, !.Active = FALSE])

FreezeWallet(walletID, reason) ==
    Mutate("FreezeWallet", <<walletID, reason>>, walletID,
           [FindWallet(walletID) EXCEPT !.Frozen = TRUE])

UnfreezeWallet(walletID) ==
    Mutate("UnfreezeWallet", <<walletID>>, walletID,
           [FindWallet(walletID) EXCEPT !.Frozen = FALSE])

FlagWalletRisk(walletID, reason) ==
    Mutate("FlagWalletRisk", <<walletID, reason>>, walletID,
           [FindWallet(walletID) EXCEPT !.RiskFlagged = TRUE])

ClearWalletRiskFlag(walletID) ==
    Mutate("ClearWalletRiskFlag", <<walletID>>, walletID,
           [FindWallet(walletID) EXCEPT !.RiskFlagged = FALSE])

(***************************************************************************)
(* Credit and Debit                                                        *)
(***************************************************************************)
\* Credit testing the frozen flag before the active flag
CreditErrFrozenFirst(walletID, amount) ==
    LET wallet == FindWallet(walletID)
    IN IF amount <= 0 THEN ErrInvalidAmount
       ELSE IF wallet = NoWallet THEN ErrWalletNotFound
       ELSE IF wallet.Frozen THEN ErrWalletFrozen
       ELSE IF ~wallet.Active THEN ErrWalletInactive
       ELSE NoErr

\* the checks of Credit, in the order of the code
CreditErr(walletID, amount) ==
    LET wallet == FindWallet(walletID)
    IN IF amount <= 0 THEN ErrInvalidAmount
       ELSE IF wallet = NoWallet THEN ErrWalletNotFound
       ELSE IF ~wallet.Active THEN ErrWalletInactive
       ELSE IF wallet.Frozen THEN ErrWalletFrozen
       ELSE NoErr

\* Debit refusing to empty the wallet (<= in place of <)
DebitErrOffByOne(walletID, amount) ==
    LET wallet == FindWallet(walletID)
    IN IF amount <= 0 THEN ErrInvalidAmount
       ELSE IF wallet = NoWallet THEN ErrorsNew("wallet not found")
       ELSE IF ~wallet.Active THEN ErrorsNew("wallet is not active")
       ELSE IF wallet.Frozen THEN ErrorsNew("wallet is frozen")
       ELSE IF wallet.Balance <= amount THEN ErrInsufficientBalance
       ELSE NoErr

\* Debit without the active check
DebitErrActiveUnchecked(walletID, amount) ==
    LET wallet == FindWallet(walletID)
    IN IF amount <= 0 THEN ErrInvalidAmount
       ELSE IF wallet = NoWallet THEN ErrorsNew("wallet not found")
       ELSE IF wallet.Frozen THEN ErrorsNew("wallet is frozen")
       ELSE IF wallet.Balance < amount THEN ErrInsufficientBalance
       ELSE NoErr

\* the checks of Debit, in the order of the code
DebitErr(walletID, amount) ==
    LET wallet == FindWallet(walletID)
    IN IF amount <= 0 THEN ErrInvalidAmount
       ELSE IF wallet = NoWallet THEN ErrorsNew("wallet not found")
       ELSE IF ~wallet.Active THEN ErrorsNew("wallet is not active")
       ELSE IF wallet.Frozen THEN ErrorsNew("wallet is frozen")
       ELSE IF wallet.Balance < amount THEN ErrInsufficientBalance
       ELSE NoErr

\* a transaction record left pending whatever status is asked for
NewTransactionPending(id, walletID, type, amount, balance, reference, status) ==
    [ID |-> id, WalletID |-> walletID, Type |-> type, Amount |-> amount,
     Balance |-> balance, Reference |-> reference, Status |-> TransactionStatusPending,
     CompletedAt |-> "zero", FailedReason |-> ""]

NewTransaction(id, walletID, type, amount, balance, reference, status) ==
    [ID |-> id, WalletID |-> walletID, Type |-> type, Amount |-> amount,
     Balance |-> balance, Reference |-> reference, Status |-> status,
     CompletedAt |-> IF status = TransactionStatusCompleted THEN "now" ELSE "zero",
     FailedReason |-> ""]

\* Credit subtracting the amount
CreditNewBalanceSubtracts(balance, amount) == Sub64(balance, amount)

CreditNewBalance(balance, amount) == Add64(balance, amount)

\* Debit adding the amount
DebitNewBalanceAdds(balance, amount) == Add64(balance, amount)

DebitNewBalance(balance, amount) == Sub64(balance, amount)

Credit(walletID, amount, reference) ==
    LET err == CreditErr(walletID, amount)
        wallet == FindWallet(walletID)
        newBalance == CreditNewBalance(wallet.Balance, amount)
        transaction == NewTransaction(Len(txns) + 1, walletID, TransactionTypeCredit,
                                      amount, newBalance, CallerReference(reference),
                                      TransactionStatusCompleted)
    IN IF err # NoErr
       THEN /\ Return("Credit", <<walletID, amount, reference>>, err, NoTransaction)
            /\ UNCHANGED <<wallets, txns>>
       ELSE /\ Len(txns) < MaxTxns
            /\ wallets' = UpdateWallet(wallets, [wallet EXCEPT !.Balance = newBalance])
            /\ txns' = SaveTransaction(txns, transaction)
            /\ Return("Credit", <<walletID, amount, reference>>, NoErr, transaction)

Debit(walletID, amount, reference) ==
    LET err == DebitErr(walletID, amount)
        wallet == FindWallet(walletID)
        newBalance == DebitNewBalance(wallet.Balance, amount)
        transaction == NewTransaction(Len(txns) + 1, walletID, TransactionTypeDebit,
                                      amount, newBalance, CallerReference(reference),
                                      TransactionStatusCompleted)
    IN IF err # NoErr
       THEN /\ Return("Debit", <<walletID, amount, reference>>, err, NoTransaction)
            /\ UNCHANGED <<wallets, txns>>
       ELSE /\ Len(txns) < MaxTxns
            /\ wallets' = UpdateWallet(wallets, [wallet EXCEPT !.Balance = newBalance])
            /\ txns' = SaveTransaction(txns, transaction)
            /\ Return("Debit", <<walletID, amount, reference>>, NoErr, transaction)

(***************************************************************************)
(* Transfer                                                                *)
(***************************************************************************)
\* Transfer without the frozen check on the destination
TransferErrDestinationUnchecked(fromWalletID, toWalletID, amount) ==
    LET fromWallet == FindWallet(fromWalletID)
        toWallet == FindWallet(toWalletID)
    IN IF amount <= 0 THEN ErrInvalidAmount
       ELSE IF fromWallet = NoWallet THEN ErrorsNew("source wallet not found")
       ELSE IF ~fromWallet.Active THEN ErrWalletInactive
       ELSE IF fromWallet.Frozen THEN ErrWalletFrozen
       ELSE IF fromWallet.Balance < amount THEN ErrInsufficientBalance
       ELSE IF toWallet = NoWallet THEN ErrorsNew("destination wallet not found")
       ELSE IF ~toWallet.Active THEN ErrWalletInactive
       ELSE NoErr

\* Transfer validating the destination before the source's balance
TransferErrDestinationFirst(fromWalletID, toWalletID, amount) ==
    LET fromWallet == FindWallet(fromWalletID)
        toWallet == FindWallet(toWalletID)
    IN IF amount <= 0 THEN ErrInvalidAmount
       ELSE IF fromWallet = NoWallet THEN ErrorsNew("source wallet not found")
       ELSE IF ~fromWallet.Active THEN ErrWalletInactive
       ELSE IF fromWallet.Frozen THEN ErrWalletFrozen
       ELSE IF toWallet = NoWallet THEN ErrorsNew("destination wallet not found")
       ELSE IF ~toWallet.Active THEN ErrWalletInactive
       ELSE IF toWallet.Frozen THEN ErrWalletFrozen
       ELSE IF fromWallet.Balance < amount THEN ErrInsufficientBalance
       ELSE NoErr

\* the checks of Transfer, in the order of the code
TransferErr(fromWalletID, toWalletID, amount) ==
    LET fromWallet == FindWallet(fromWalletID)
        toWallet == FindWallet(toWalletID)
    IN IF amount <= 0 THEN ErrInvalidAmount
       ELSE IF fromWallet = NoWallet THEN ErrorsNew("source wallet not found")
       ELSE IF ~fromWallet.Active THEN ErrWalletInactive
       ELSE IF fromWallet.Frozen THEN ErrWalletFrozen
       ELSE IF fromWallet.Balance < amount THEN ErrInsufficientBalance
       ELSE IF toWallet = NoWallet THEN ErrorsNew("destination wallet not found")
       ELSE IF ~toWallet.Active THEN ErrWalletInactive
       ELSE IF toWallet.Frozen THEN ErrWalletFrozen
       ELSE NoErr

\* both rows are read before either is written; each write stores the whole row
\* read, so when the two ids are equal the second write replaces the first
TransferWallets(fromWalletID, toWalletID, amount) ==
    LET fromWallet == [FindWallet(fromWalletID) EXCEPT !.Balance = Sub64(@, amount)]
        toWallet == [FindWallet(toWalletID) EXCEPT !.Balance = Add64(@, amount)]
    IN UpdateWallet(UpdateWallet(wallets, fromWallet), toWallet)

Transfer(fromWalletID, toWalletID, amount) ==
    LET err == TransferErr(fromWalletID, toWalletID, amount)
        fromBalance == Sub64(FindWallet(fromWalletID).Balance, amount)
        toBalance == Add64(FindWallet(toWalletID).Balance, amount)
        reference == GeneratedReference(Len(txns) + 1)
        debitTransaction == NewTransaction(Len(txns) + 1, fromWalletID, TransactionTypeDebit,
                                           amount, fromBalance, reference,
                                           TransactionStatusCompleted)
        creditTransaction == NewTransaction(Len(txns) + 2, toWalletID, TransactionTypeCredit,
                                            amount, toBalance, debitTransaction.Reference,
                                            TransactionStatusCompleted)
    IN IF err # NoErr
       THEN /\ Return("Transfer", <<fromWalletID, toWalletID, amount>>, err, NoTransaction)
            /\ UNCHANGED <<wallets, txns>>
       ELSE /\ Len(txns) + 2 <= MaxTxns
            /\ wallets' = TransferWallets(fromWalletID, toWalletID, amount)
            /\ txns' = SaveTransaction(SaveTransaction(txns, debitTransaction), creditTransaction)
            /\ Return("Transfer", <<fromWalletID, toWalletID, amount>>, NoErr, NoTransaction)

(***************************************************************************)
(* A caller inserts a transaction row directly through the store           *)
(***************************************************************************)
StoreSaveTransaction(walletID, type, amount, reference, status) ==
    LET transaction == NewTransaction(Len(txns) + 1, walletID, type, amount, 0,
                                      CallerReference(reference), status)
    IN /\ Len(txns) < MaxTxns
       /\ txns' = SaveTransaction(txns, transaction)
       /\ Return("store.SaveTransaction",
                       <<walletID, type, amount, reference, status>>, NoErr, transaction)
       /\ UNCHANGED wallets

(***************************************************************************)
(* CancelTransaction and CompleteTransaction                               *)
(***************************************************************************)
\* CancelTransaction that does not record the reason
CancelTransactionDropsReason(transactionID, reason) ==
    LET transaction == FindTransaction(transactionID)
        err == IF transaction = NoTransaction THEN ErrTransactionNotFound
               ELSE IF transaction.Status # TransactionStatusPending
                    THEN ErrPendingTransactionOnly
               ELSE NoErr
    IN IF err # NoErr
       THEN /\ Return("CancelTransaction", <<transactionID, reason>>, err, NoTransaction)
            /\ UNCHANGED <<wallets, txns>>
       ELSE /\ txns' = UpdateTransaction(txns,
                          [transaction EXCEPT !.Status = TransactionStatusCancelled])
            /\ Return("CancelTransaction", <<transactionID, reason>>, NoErr, NoTransaction)
            /\ UNCHANGED wallets

\* CancelTransaction that also voids the amount of the transaction
CancelTransactionVoidsAmount(transactionID, reason) ==
    LET transaction == FindTransaction(transactionID)
        err == IF transaction = NoTransaction THEN ErrTransactionNotFound
               ELSE IF transaction.Status # TransactionStatusPending
                    THEN ErrPendingTransactionOnly
               ELSE NoErr
    IN IF err # NoErr
       THEN /\ Return("CancelTransaction", <<transactionID, reason>>, err, NoTransaction)
            /\ UNCHANGED <<wallets, txns>>
       ELSE /\ txns' = UpdateTransaction(txns,
                          [transaction EXCEPT !.Status = TransactionStatusCancelled,
                                              !.FailedReason = reason,
                                              !.Amount = 0])
            /\ Return("CancelTransaction", <<transactionID, reason>>, NoErr, NoTransaction)
            /\ UNCHANGED wallets

CancelTransaction(transactionID, reason) ==
    LET transaction == FindTransaction(transactionID)
        err == IF transaction = NoTransaction THEN ErrTransactionNotFound
               ELSE IF transaction.Status # TransactionStatusPending
                    THEN ErrPendingTransactionOnly
               ELSE NoErr
    IN IF err # NoErr
       THEN /\ Return("CancelTransaction", <<transactionID, reason>>, err, NoTransaction)
            /\ UNCHANGED <<wallets, txns>>
       ELSE /\ txns' = UpdateTransaction(txns,
                          [transaction EXCEPT !.Status = TransactionStatusCancelled,
                                              !.FailedReason = reason])
            /\ Return("CancelTransaction", <<transactionID, reason>>, NoErr, NoTransaction)
            /\ UNCHANGED wallets

\* CompleteTransaction without the status check
CompleteTransactionErrAnyStatus(transactionID) ==
    LET transaction == FindTransaction(transactionID)
        wallet == FindWallet(transaction.WalletID)
    IN IF transaction = NoTransaction THEN ErrTransactionNotFound
       ELSE IF wallet = NoWallet THEN ErrorsNew("wallet not found")
       ELSE IF transaction.Type = TransactionTypeDebit /\ wallet.Balance < transaction.Amount
            THEN ErrInsufficientBalance
       ELSE NoErr

\* CompleteTransaction without the balance check of a debit
CompleteTransactionErrNoRecheck(transactionID) ==
    LET transaction == FindTransaction(transactionID)
        wallet == FindWallet(transaction.WalletID)
    IN IF transaction = NoTransaction THEN ErrTransactionNotFound
       ELSE IF transaction.Status # TransactionStatusPending THEN ErrPendingTransactionOnly
       ELSE IF wallet = NoWallet THEN ErrorsNew("wallet not found")
       ELSE NoErr

\* the checks of CompleteTransaction, in the order of the code
\* CompleteTransaction refusing a wallet that is inactive or frozen, as Credit does
CompleteTransactionErrGated(transactionID) ==
    LET transaction == FindTransaction(transactionID)
        wallet == FindWallet(transaction.WalletID)
    IN IF transaction = NoTransaction THEN ErrTransactionNotFound
       ELSE IF transaction.Status # TransactionStatusPending THEN ErrPendingTransactionOnly
       ELSE IF wallet = NoWallet THEN ErrorsNew("wallet not found")
       ELSE IF ~wallet.Active THEN ErrWalletInactive
       ELSE IF wallet.Frozen THEN ErrWalletFrozen
       ELSE IF transaction.Type = TransactionTypeDebit /\ wallet.Balance < transaction.Amount
            THEN ErrInsufficientBalance
       ELSE NoErr

CompleteTransactionErr(transactionID) ==
    LET transaction == FindTransaction(transactionID)
        wallet == FindWallet(transaction.WalletID)
    IN IF transaction = NoTransaction THEN ErrTransactionNotFound
       ELSE IF transaction.Status # TransactionStatusPending THEN ErrPendingTransactionOnly
       ELSE IF wallet = NoWallet THEN ErrorsNew("wallet not found")
       ELSE IF transaction.Type = TransactionTypeDebit /\ wallet.Balance < transaction.Amount
            THEN ErrInsufficientBalance
       ELSE NoErr

\* CompleteTransaction adding the amount of a debit
CompleteBalanceDebitAdds(balance, transaction) == Add64(balance, transaction.Amount)

\* the balance CompleteTransaction writes to the wallet
CompleteBalance(balance, transaction) ==
    IF transaction.Type = TransactionTypeCredit THEN Add64(balance, transaction.Amount)
    ELSE IF transaction.Type = TransactionTypeDebit THEN Sub64(balance, transaction.Amount)
    ELSE balance

CompleteTransaction(transactionID) ==
    LET err == CompleteTransactionErr(transactionID)
        transaction == FindTransaction(transactionID)
        wallet == FindWallet(transaction.WalletID)
        newBalance == CompleteBalance(wallet.Balance, transaction)
    IN IF err # NoErr
       THEN /\ Return("CompleteTransaction", <<transactionID>>, err, NoTransaction)
            /\ UNCHANGED <<wallets, txns>>
       ELSE /\ wallets' = UpdateWallet(wallets, [wallet EXCEPT !.Balance = newBalance])
            /\ txns' = UpdateTransaction(txns,
                          [transaction EXCEPT !.Status = TransactionStatusCompleted,
                                              !.CompletedAt = "now",
                                              !.Balance = newBalance])
            /\ Return("CompleteTransaction", <<transactionID>>, NoErr, NoTransaction)

(***************************************************************************)
(* The other methods that open a unit of work, over a store whose calls    *)
(* can fail                                                                *)
(***************************************************************************)
CreateWalletCalls ==
    <<"FindWalletByUserIDAndReference", "FindWalletsByUserID", "SaveWallet", "Commit">>

CreateWalletUnitOfWork(userID, name, description, reference, failing) ==
    LET existingWallet == FindWalletByUserIDAndReference(userID, reference)
        isPrimary == FindWalletsByUserID(userID) = {}
        wallet == [ID |-> GenerateID, UserID |-> userID, Name |-> name,
                   Description |-> description, Reference |-> reference,
                   Balance |-> 0, Primary |-> isPrimary, Active |-> TRUE,
                   Frozen |-> FALSE, RiskFlagged |-> FALSE]
        found == failing # "FindWalletByUserIDAndReference" /\ existingWallet # NoWallet
        err == IF found \/ failing = "none" THEN NoErr ELSE StoreFailure
        saved == [Store EXCEPT !.wallets = SaveWallet(wallets, wallet)]
        staged == IF found THEN Store
                  ELSE StagedUntil(CreateWalletCalls, <<Store, Store, saved, saved>>, failing)
        final == UnitOfWork(err, staged)
    IN /\ found \/ GenerateID \in WalletIDs
       /\ wallets' = final.wallets
       /\ txns' = final.txns
       /\ Return("CreateWallet", <<userID, name, description, reference, failing>>, err,
                 IF found THEN existingWallet ELSE IF err = NoErr THEN wallet ELSE NoWallet)

CreditCalls == <<"FindWallet", "UpdateWallet", "SaveTransaction", "Commit">>

\* Credit writing the wallet through the store, outside its unit of work
CreditUnitOfWorkStoreUpdate(walletID, amount, reference, failing) ==
    LET wallet == FindWallet(walletID)
        refused == CreditErr(walletID, amount)
        err == IF amount <= 0 THEN ErrInvalidAmount
               ELSE IF failing = "FindWallet" THEN StoreFailure
               ELSE IF refused # NoErr THEN refused
               ELSE IF failing # "none" THEN StoreFailure
               ELSE NoErr
        newBalance == CreditNewBalance(wallet.Balance, amount)
        transaction == NewTransaction(Len(txns) + 1, walletID, TransactionTypeCredit,
                                      amount, newBalance, CallerReference(reference),
                                      TransactionStatusCompleted)
        written == failing \in {"SaveTransaction", "Commit", "none"}
    IN /\ refused = NoErr => Len(txns) < MaxTxns
       /\ wallets' = IF amount > 0 /\ refused = NoErr /\ written
                     THEN UpdateWallet(wallets, [wallet EXCEPT !.Balance = newBalance])
                     ELSE wallets
       /\ txns' = IF err = NoErr THEN SaveTransaction(txns, transaction) ELSE txns
       /\ Return("Credit", <<walletID, amount, reference, failing>>, err,
                 IF err = NoErr THEN transaction ELSE NoTransaction)

CreditUnitOfWork(walletID, amount, reference, failing) ==
    LET wallet == FindWallet(walletID)
        refused == CreditErr(walletID, amount)
        err == IF amount <= 0 THEN ErrInvalidAmount
               ELSE IF failing = "FindWallet" THEN StoreFailure
               ELSE IF refused # NoErr THEN refused
               ELSE IF failing # "none" THEN StoreFailure
               ELSE NoErr
        newBalance == CreditNewBalance(wallet.Balance, amount)
        transaction == NewTransaction(Len(txns) + 1, walletID, TransactionTypeCredit,
                                      amount, newBalance, CallerReference(reference),
                                      TransactionStatusCompleted)
        updated == [Store EXCEPT
                       !.wallets = UpdateWallet(wallets, [wallet EXCEPT !.Balance = newBalance])]
        saved == [updated EXCEPT !.txns = SaveTransaction(txns, transaction)]
        staged == IF refused # NoErr THEN Store
                  ELSE StagedUntil(CreditCalls, <<Store, updated, saved, saved>>, failing)
        final == UnitOfWork(err, staged)
    IN /\ refused = NoErr => Len(txns) < MaxTxns
       /\ wallets' = final.wallets
       /\ txns' = final.txns
       /\ Return("Credit", <<walletID, amount, reference, failing>>, err,
                 IF err = NoErr THEN transaction ELSE NoTransaction)

DebitCalls == <<"FindWallet", "UpdateWallet", "SaveTransaction", "Commit">>

DebitUnitOfWork(walletID, amount, reference, failing) ==
    LET wallet == FindWallet(walletID)
        refused == DebitErr(walletID, amount)
        err == IF amount <= 0 THEN ErrInvalidAmount
               ELSE IF failing = "FindWallet" THEN StoreFailure
               ELSE IF refused # NoErr THEN refused
               ELSE IF failing # "none" THEN StoreFailure
               ELSE NoErr
        newBalance == DebitNewBalance(wallet.Balance, amount)
        transaction == NewTransaction(Len(txns) + 1, walletID, TransactionTypeDebit,
                                      amount, newBalance, CallerReference(reference),
                                      TransactionStatusCompleted)
        updated == [Store EXCEPT
                       !.wallets = UpdateWallet(wallets, [wallet EXCEPT !.Balance = newBalance])]
        saved == [updated EXCEPT !.txns = SaveTransaction(txns, transaction)]
        staged == IF refused # NoErr THEN Store
                  ELSE StagedUntil(DebitCalls, <<Store, updated, saved, saved>>, failing)
        final == UnitOfWork(err, staged)
    IN /\ refused = NoErr => Len(txns) < MaxTxns
       /\ wallets' = final.wallets
       /\ txns' = final.txns
       /\ Return("Debit", <<walletID, amount, reference, failing>>, err,
                 IF err = NoErr THEN transaction ELSE NoTransaction)

TransferCalls ==
    <<"FindWallet(from)", "FindWallet(to)", "UpdateWallet(from)", "UpdateWallet(to)",
      "SaveTransaction(debit)", "SaveTransaction(credit)", "Commit">>

\* the checks Transfer makes on the source, before it reads the destination
TransferSourceErr(fromWalletID, amount) ==
    LET fromWallet == FindWallet(fromWalletID)
    IN IF fromWallet = NoWallet THEN ErrorsNew("source wallet not found")
       ELSE IF ~fromWallet.Active THEN ErrWalletInactive
       ELSE IF fromWallet.Frozen THEN ErrWalletFrozen
       ELSE IF fromWallet.Balance < amount THEN ErrInsufficientBalance
       ELSE NoErr

TransferUnitOfWork(fromWalletID, toWalletID, amount, failing) ==
    LET refused == TransferErr(fromWalletID, toWalletID, amount)
        sourceErr == TransferSourceErr(fromWalletID, amount)
        err == IF amount <= 0 THEN ErrInvalidAmount
               ELSE IF failing = "FindWallet(from)" THEN StoreFailure
               ELSE IF sourceErr # NoErr THEN sourceErr
               ELSE IF failing = "FindWallet(to)" THEN StoreFailure
               ELSE IF refused # NoErr THEN refused
               ELSE IF failing # "none" THEN StoreFailure
               ELSE NoErr
        fromWallet == [FindWallet(fromWalletID) EXCEPT !.Balance = Sub64(@, amount)]
        toWallet == [FindWallet(toWalletID) EXCEPT !.Balance = Add64(@, amount)]
        reference == GeneratedReference(Len(txns) + 1)
        debitTransaction == NewTransaction(Len(txns) + 1, fromWalletID, TransactionTypeDebit,
                                           amount, fromWallet.Balance, reference,
                                           TransactionStatusCompleted)
        creditTransaction == NewTransaction(Len(txns) + 2, toWalletID, TransactionTypeCredit,
                                            amount, toWallet.Balance, debitTransaction.Reference,
                                            TransactionStatusCompleted)
        fromUpdated == [Store EXCEPT !.wallets = UpdateWallet(wallets, fromWallet)]
        toUpdated == [fromUpdated EXCEPT !.wallets = UpdateWallet(@, toWallet)]
        debitSaved == [toUpdated EXCEPT !.txns = SaveTransaction(txns, debitTransaction)]
        creditSaved == [debitSaved EXCEPT !.txns = SaveTransaction(@, creditTransaction)]
        staged == IF refused # NoErr THEN Store
                  ELSE StagedUntil(TransferCalls,
                                   <<Store, Store, fromUpdated, toUpdated, debitSaved,
                                     creditSaved, creditSaved>>, failing)
        final == UnitOfWork(err, staged)
    IN /\ refused = NoErr => Len(txns) + 2 <= MaxTxns
       /\ wallets' = final.wallets
       /\ txns' = final.txns
       /\ Return("Transfer", <<fromWalletID, toWalletID, amount, failing>>, err, NoTransaction)

CancelTransactionCalls == <<"FindTransaction", "UpdateTransaction", "Commit">>

CancelTransactionUnitOfWork(transactionID, reason, failing) ==
    LET transaction == FindTransaction(transactionID)
        refused == IF transaction = NoTransaction THEN ErrTransactionNotFound
                   ELSE IF transaction.Status # TransactionStatusPending
                        THEN ErrPendingTransactionOnly
                   ELSE NoErr
        err == IF failing = "FindTransaction" THEN StoreFailure
               ELSE IF refused # NoErr THEN refused
               ELSE IF failing # "none" THEN StoreFailure
               ELSE NoErr
        updated == [Store EXCEPT !.txns = UpdateTransaction(txns,
                       [transaction EXCEPT !.Status = TransactionStatusCancelled,
                                           !.FailedReason = reason])]
        staged == IF refused # NoErr THEN Store
                  ELSE StagedUntil(CancelTransactionCalls, <<Store, updated, updated>>, failing)
        final == UnitOfWork(err, staged)
    IN /\ wallets' = final.wallets
       /\ txns' = final.txns
       /\ Return("CancelTransaction", <<transactionID, reason, failing>>, err, NoTransaction)

CompleteTransactionCalls ==
    <<"FindTransaction", "FindWallet", "UpdateWallet", "UpdateTransaction", "Commit">>

CompleteTransactionUnitOfWork(transactionID, failing) ==
    LET transaction == FindTransaction(transactionID)
        wallet == FindWallet(transaction.WalletID)
        refused == CompleteTransactionErr(transactionID)
        newBalance == CompleteBalance(wallet.Balance, transaction)
        err == IF failing = "FindTransaction" THEN StoreFailure
               ELSE IF refused \in {ErrTransactionNotFound, ErrPendingTransactionOnly}
                    THEN refused
               ELSE IF failing = "FindWallet" THEN StoreFailure
               ELSE IF refused # NoErr THEN refused
               ELSE IF failing # "none" THEN StoreFailure
               ELSE NoErr
        walletUpdated == [Store EXCEPT
                             !.wallets = UpdateWallet(wallets,
                                                      [wallet EXCEPT !.Balance = newBalance])]
        updated == [walletUpdated EXCEPT !.txns = UpdateTransaction(txns,
                       [transaction EXCEPT !.Status = TransactionStatusCompleted,
                                           !.CompletedAt = "now",
                                           !.Balance = newBalance])]
        staged == IF refused # NoErr THEN Store
                  ELSE StagedUntil(CompleteTransactionCalls,
                                   <<Store, Store, walletUpdated, updated, updated>>, failing)
        final == UnitOfWork(err, staged)
    IN /\ wallets' = final.wallets
       /\ txns' = final.txns
       /\ Return("CompleteTransaction", <<transactionID, failing>>, err, NoTransaction)

(***************************************************************************)
(* Reads: GetUserWalletSummary and GetPrimaryWallet                        *)
(***************************************************************************)
RECURSIVE TotalBalance(_, _)
\* the loop over the rows FindWalletsByUserID returned: totalBalance += Balance
\* for each row with Active && !Frozen
TotalBalance(rows, totalBalance) ==
    IF rows = {}
    THEN totalBalance
    ELSE LET wallet == wallets[Min(rows)]
         IN TotalBalance(rows \ {wallet.ID},
                         IF wallet.Active /\ ~wallet.Frozen
                         THEN Add64(totalBalance, wallet.Balance)
                         ELSE totalBalance)

\* a summary that adds up every wallet of the user
GetUserWalletSummaryAllWallets(userID) ==
    LET rows == FindWalletsByUserID(userID)
        total[n \in 0..MaxWallets] ==
            IF n = 0 THEN 0
            ELSE IF n \in rows THEN Add64(total[n - 1], wallets[n].Balance)
            ELSE total[n - 1]
    IN /\ Return("GetUserWalletSummary", <<userID>>, NoErr, total[MaxWallets])
       /\ UNCHANGED <<wallets, txns>>

GetUserWalletSummary(userID) ==
    /\ Return("GetUserWalletSummary", <<userID>>, NoErr,
              TotalBalance(FindWalletsByUserID(userID), 0))
    /\ UNCHANGED <<wallets, txns>>

\* a lookup that falls back to the user's first active wallet
GetPrimaryWalletFallsBack(userID) ==
    LET primary == FindPrimaryWalletByUserID(userID)
        active == {w \in FindWalletsByUserID(userID) : wallets[w].Active}
    IN /\ Return("GetPrimaryWallet", <<userID>>, NoErr,
                 IF primary # NoWallet THEN primary
                 ELSE IF active # {} THEN wallets[Min(active)]
                 ELSE NoWallet)
       /\ UNCHANGED <<wallets, txns>>

GetPrimaryWallet(userID) ==
    /\ Return("GetPrimaryWallet", <<userID>>, NoErr, FindPrimaryWalletByUserID(userID))
    /\ UNCHANGED <<wallets, txns>>

(***************************************************************************)
(* Calls that overlap. A caller inside a call is at a position of the      *)
(* method (pc) with the values it has read; a step of one caller runs      *)
(* between the steps of the other.                                         *)
(***************************************************************************)
\* the caller leaves the call with this result
Leave(c, op, args, err, res) ==
    /\ last' = Call(op, args, err, res)
    /\ inflight' = [inflight EXCEPT ![c] = Idle]

\* CreateWallet up to Begin: the existence check, read through the store before
\* the unit of work is opened
CreateWalletCheck(c, userID, name, description, reference) ==
    LET existingWallet == FindWalletByUserIDAndReference(userID, reference)
        args == <<userID, name, description, reference>>
    IN /\ inflight[c] = Idle
       /\ IF existingWallet # NoWallet
          THEN Leave(c, "CreateWallet", args, NoErr, existingWallet)
          ELSE /\ inflight' = [inflight EXCEPT ![c] = [pc |-> "CreateWallet.Begin",
                                                       args |-> args]]
               /\ UNCHANGED last
       /\ UNCHANGED <<wallets, txns>>

\* an insert refused by a unique index on (user_id, reference)
CreateWalletInsertUnique(c) ==
    LET args == inflight[c].args
        isPrimary == FindWalletsByUserID(args[1]) = {}
        wallet == [ID |-> GenerateID, UserID |-> args[1], Name |-> args[2],
                   Description |-> args[3], Reference |-> args[4],
                   Balance |-> 0, Primary |-> isPrimary, Active |-> TRUE,
                   Frozen |-> FALSE, RiskFlagged |-> FALSE]
    IN /\ inflight[c].pc = "CreateWallet.Begin"
       /\ GenerateID \in WalletIDs
       /\ IF FindWalletByUserIDAndReference(args[1], args[4]) # NoWallet
          THEN /\ Leave(c, "CreateWallet", args, StoreFailure, NoWallet)
               /\ UNCHANGED <<wallets, txns>>
          ELSE /\ wallets' = SaveWallet(wallets, wallet)
               /\ Leave(c, "CreateWallet", args, NoErr, wallet)
               /\ UNCHANGED txns

\* an insert that makes the wallet primary without counting the user's wallets
CreateWalletInsertNoCount(c) ==
    LET args == inflight[c].args
        wallet == [ID |-> GenerateID, UserID |-> args[1], Name |-> args[2],
                   Description |-> args[3], Reference |-> args[4],
                   Balance |-> 0, Primary |-> TRUE, Active |-> TRUE,
                   Frozen |-> FALSE, RiskFlagged |-> FALSE]
    IN /\ inflight[c].pc = "CreateWallet.Begin"
       /\ GenerateID \in WalletIDs
       /\ wallets' = SaveWallet(wallets, wallet)
       /\ Leave(c, "CreateWallet", args, NoErr, wallet)
       /\ UNCHANGED txns

\* CreateWallet from Begin to its return: the unit of work that counts the user's
\* wallets and inserts the new one, run without another unit of work in between
CreateWalletInsert(c) ==
    LET args == inflight[c].args
        isPrimary == FindWalletsByUserID(args[1]) = {}
        wallet == [ID |-> GenerateID, UserID |-> args[1], Name |-> args[2],
                   Description |-> args[3], Reference |-> args[4],
                   Balance |-> 0, Primary |-> isPrimary, Active |-> TRUE,
                   Frozen |-> FALSE, RiskFlagged |-> FALSE]
    IN /\ inflight[c].pc = "CreateWallet.Begin"
       /\ GenerateID \in WalletIDs
       /\ wallets' = SaveWallet(wallets, wallet)
       /\ Leave(c, "CreateWallet", args, NoErr, wallet)
       /\ UNCHANGED txns

(***************************************************************************)
(* Credit, Debit and Transfer of overlapping callers over a store that     *)
(* runs conflicting units of work one at a time: a unit of work holds the  *)
(* wallet rows it has read until it returns, and FindWallet of another     *)
(* unit of work on a held row waits.                                       *)
(***************************************************************************)
\* the wallet rows the unit of work of caller c has read
Held(c) ==
    IF inflight[c] = Idle THEN {}
    ELSE {inflight[c].read[i].ID : i \in 1..Len(inflight[c].read)}

\* txn.FindWallet(w) of caller c does not wait
Free(c, w) == \A o \in Callers \ {c} : w \notin Held(o)

\* the amount check and Begin of Credit, Debit (args: wallet, amount, reference)
\* and Transfer (args: source, destination, amount)
Enter(c, op, args, amount) ==
    /\ inflight[c] = Idle
    /\ IF amount <= 0
       THEN Leave(c, op, args, ErrInvalidAmount, NoTransaction)
       ELSE /\ inflight' = [inflight EXCEPT ![c] = [pc |-> op, args |-> args, read |-> <<>>]]
            /\ UNCHANGED last
    /\ UNCHANGED <<wallets, txns>>

\* txn.FindWallet and the checks on the row read; err is what they return
ReadWallet(c, op, walletID, err) ==
    /\ inflight[c] # Idle
    /\ inflight[c].pc = op
    /\ Free(c, walletID)
    /\ IF err # NoErr
       THEN Leave(c, op, inflight[c].args, err, NoTransaction)
       ELSE /\ inflight' = [inflight EXCEPT ![c].read = Append(@, FindWallet(walletID))]
            /\ UNCHANGED last
    /\ UNCHANGED <<wallets, txns>>

CreditRead(c) ==
    /\ inflight[c] # Idle
    /\ inflight[c].read = <<>>
    /\ ReadWallet(c, "Credit", inflight[c].args[1],
                  CreditErr(inflight[c].args[1], inflight[c].args[2]))

DebitRead(c) ==
    /\ inflight[c] # Idle
    /\ inflight[c].read = <<>>
    /\ ReadWallet(c, "Debit", inflight[c].args[1],
                  DebitErr(inflight[c].args[1], inflight[c].args[2]))

TransferReadSource(c) ==
    /\ inflight[c] # Idle
    /\ inflight[c].read = <<>>
    /\ ReadWallet(c, "Transfer", inflight[c].args[1],
                  TransferSourceErr(inflight[c].args[1], inflight[c].args[3]))

TransferReadDestination(c) ==
    /\ inflight[c] # Idle
    /\ Len(inflight[c].read) = 1
    /\ ReadWallet(c, "Transfer", inflight[c].args[2],
                  TransferErr(inflight[c].args[1], inflight[c].args[2],
                              inflight[c].args[3]))

\* UpdateWallet, SaveTransaction and Commit of Credit, with the row read
CreditCommit(c) ==
    /\ inflight[c] # Idle
    /\ inflight[c].pc = "Credit"
    /\ Len(inflight[c].read) = 1
    /\ LET args == inflight[c].args
           wallet == inflight[c].read[1]
           newBalance == CreditNewBalance(wallet.Balance, args[2])
           transaction == NewTransaction(Len(txns) + 1, args[1], TransactionTypeCredit,
                                         args[2], newBalance, CallerReference(args[3]),
                                         TransactionStatusCompleted)
       IN /\ wallets' = UpdateWallet(wallets, [wallet EXCEPT !.Balance = newBalance])
          /\ txns' = SaveTransaction(txns, transaction)
          /\ Leave(c, "Credit", args, NoErr, transaction)

\* UpdateWallet, SaveTransaction and Commit of Debit, with the row read
DebitCommit(c) ==
    /\ inflight[c] # Idle
    /\ inflight[c].pc = "Debit"
    /\ Len(inflight[c].read) = 1
    /\ LET args == inflight[c].args
           wallet == inflight[c].read[1]
           newBalance == DebitNewBalance(wallet.Balance, args[2])
           transaction == NewTransaction(Len(txns) + 1, args[1], TransactionTypeDebit,
                                         args[2], newBalance, CallerReference(args[3]),
                                         TransactionStatusCompleted)
       IN /\ wallets' = UpdateWallet(wallets, [wallet EXCEPT !.Balance = newBalance])
          /\ txns' = SaveTransaction(txns, transaction)
          /\ Leave(c, "Debit", args, NoErr, transaction)

\* the two UpdateWallet, the two SaveTransaction and Commit of Transfer, with the
\* two rows read
TransferCommit(c) ==
    /\ inflight[c] # Idle
    /\ inflight[c].pc = "Transfer"
    /\ Len(inflight[c].read) = 2
    /\ LET args == inflight[c].args
           fromWallet == [inflight[c].read[1] EXCEPT !.Balance = Sub64(@, args[3])]
           toWallet == [inflight[c].read[2] EXCEPT !.Balance = Add64(@, args[3])]
           reference == GeneratedReference(Len(txns) + 1)
           debitTransaction == NewTransaction(Len(txns) + 1, args[1], TransactionTypeDebit,
                                              args[3], fromWallet.Balance, reference,
                                              TransactionStatusCompleted)
           creditTransaction == NewTransaction(Len(txns) + 2, args[2],
                                               TransactionTypeCredit, args[3],
                                               toWallet.Balance, reference,
                                               TransactionStatusCompleted)
       IN /\ wallets' = UpdateWallet(UpdateWallet(wallets, fromWallet), toWallet)
          /\ txns' = SaveTransaction(SaveTransaction(txns, debitTransaction),
                                     creditTransaction)
          /\ Leave(c, "Transfer", args, NoErr, NoTransaction)

(***************************************************************************)
(* The store used directly: units of work opened with Begin, written with  *)
(* txn.SaveWallet, read with txn.FindWallet and closed with Commit or      *)
(* Rollback, next to store.FindWallet outside any unit of work. A caller   *)
(* keeps the writes of its unit of work; after the unit of work is closed  *)
(* they are kept with the way it was closed.                               *)
(***************************************************************************)
\* the rows written in the unit of work of caller c, open or closed
Writes(c) == IF inflight[c] = Idle THEN <<>> ELSE inflight[c].writes

\* ids no unit of work has written and the store does not hold (a primary key)
UnusedIDs ==
    {w \in WalletIDs : w \notin DOMAIN wallets /\ \A c \in Callers : w \notin DOMAIN Writes(c)}

\* what a read inside the unit of work of c sees: its writes over the committed rows
Staged(c) == [Store EXCEPT !.wallets = Writes(c) @@ wallets]

TxnBegin(c) ==
    /\ inflight[c] = Idle \/ inflight[c].pc # "Txn"
    /\ inflight' = [inflight EXCEPT ![c] = [pc |-> "Txn", writes |-> <<>>]]
    /\ last' = Call("store.Begin", <<c>>, NoErr, NoWallet)
    /\ UNCHANGED <<wallets, txns>>

TxnSaveWallet(c, walletID, name) ==
    LET wallet == [ID |-> walletID, UserID |-> "u1", Name |-> name,
                   Description |-> "d1", Reference |-> "r1",
                   Balance |-> 0, Primary |-> FALSE, Active |-> TRUE,
                   Frozen |-> FALSE, RiskFlagged |-> FALSE]
    IN /\ inflight[c] # Idle
       /\ inflight[c].pc = "Txn"
       /\ walletID \in UnusedIDs
       /\ inflight' = [inflight EXCEPT ![c].writes = SaveWallet(@, wallet)]
       /\ last' = Call("txn.SaveWallet", <<c, walletID>>, NoErr, wallet)
       /\ UNCHANGED <<wallets, txns>>

\* a read inside the unit of work that sees the committed rows only
TxnFindWalletCommitted(c, walletID) ==
    /\ inflight[c] # Idle
    /\ inflight[c].pc = "Txn"
    /\ last' = Call("txn.FindWallet", <<c, walletID>>, NoErr, FindWallet(walletID))
    /\ UNCHANGED <<wallets, txns, inflight>>

TxnFindWallet(c, walletID) ==
    /\ inflight[c] # Idle
    /\ inflight[c].pc = "Txn"
    /\ last' = Call("txn.FindWallet", <<c, walletID>>, NoErr,
                    IF walletID \in DOMAIN Staged(c).wallets
                    THEN Staged(c).wallets[walletID] ELSE NoWallet)
    /\ UNCHANGED <<wallets, txns, inflight>>

StoreFindWallet(walletID) ==
    /\ last' = Call("store.FindWallet", <<walletID>>, NoErr, FindWallet(walletID))
    /\ UNCHANGED <<wallets, txns, inflight>>

TxnCommit(c) ==
    LET committed == Commit(Store, Begin(Staged(c)))
    IN /\ inflight[c] # Idle
       /\ inflight[c].pc = "Txn"
       /\ wallets' = committed.wallets
       /\ txns' = committed.txns
       /\ inflight' = [inflight EXCEPT ![c].pc = "committed"]
       /\ last' = Call("txn.Commit", <<c>>, NoErr, NoWallet)

TxnRollback(c) ==
    LET committed == Rollback(Store, Begin(Staged(c)))
    IN /\ inflight[c] # Idle
       /\ inflight[c].pc = "Txn"
       /\ wallets' = committed.wallets
       /\ txns' = committed.txns
       /\ inflight' = [inflight EXCEPT ![c].pc = "rolled back"]
       /\ last' = Call("txn.Rollback", <<c>>, NoErr, NoWallet)

(***************************************************************************)
(* CompleteTransaction and CancelTransaction of overlapping callers over a *)
(* store that runs conflicting units of work one at a time: a unit of work *)
(* holds the transaction row it has found, and the wallet row it has read, *)
(* until it returns.                                                       *)
(***************************************************************************)
\* the transaction rows the unit of work of caller c has found
HeldTransactions(c) ==
    IF inflight[c] = Idle THEN {}
    ELSE {inflight[c].found[i].ID : i \in 1..Len(inflight[c].found)}

\* a store that lets two units of work find the same row at the same time
FreeTransactionAlways(c, t) == TRUE

\* txn.FindTransaction(t) of caller c does not wait
FreeTransaction(c, t) == \A o \in Callers \ {c} : t \notin HeldTransactions(o)

\* Begin of CompleteTransaction (args: transaction) and CancelTransaction (args:
\* transaction, reason)
ResolveEnter(c, op, args) ==
    /\ inflight[c] = Idle
    /\ inflight' = [inflight EXCEPT
                       ![c] = [pc |-> op, args |-> args, found |-> <<>>, read |-> <<>>]]
    /\ UNCHANGED <<last, wallets, txns>>

\* txn.FindTransaction and the checks on the row found
ResolveFind(c) ==
    /\ inflight[c] # Idle
    /\ inflight[c].pc \in {"CompleteTransaction", "CancelTransaction"}
    /\ inflight[c].found = <<>>
    /\ FreeTransaction(c, inflight[c].args[1])
    /\ LET transaction == FindTransaction(inflight[c].args[1])
           err == IF transaction = NoTransaction THEN ErrTransactionNotFound
                  ELSE IF transaction.Status # TransactionStatusPending
                       THEN ErrPendingTransactionOnly
                  ELSE NoErr
       IN IF err # NoErr
          THEN Leave(c, inflight[c].pc, inflight[c].args, err, NoTransaction)
          ELSE /\ inflight' = [inflight EXCEPT ![c].found = <<transaction>>]
               /\ UNCHANGED last
    /\ UNCHANGED <<wallets, txns>>

\* UpdateTransaction and Commit of CancelTransaction, with the row found
CancelCommit(c) ==
    /\ inflight[c] # Idle
    /\ inflight[c].pc = "CancelTransaction"
    /\ Len(inflight[c].found) = 1
    /\ txns' = UpdateTransaction(txns,
                  [inflight[c].found[1] EXCEPT !.Status = TransactionStatusCancelled,
                                               !.FailedReason = inflight[c].args[2]])
    /\ Leave(c, "CancelTransaction", inflight[c].args, NoErr, NoTransaction)
    /\ UNCHANGED wallets

\* txn.FindWallet of CompleteTransaction and the checks on the row read
CompleteRead(c) ==
    /\ inflight[c] # Idle
    /\ inflight[c].pc = "CompleteTransaction"
    /\ Len(inflight[c].found) = 1
    /\ inflight[c].read = <<>>
    /\ Free(c, inflight[c].found[1].WalletID)
    /\ LET transaction == inflight[c].found[1]
           wallet == FindWallet(transaction.WalletID)
           err == IF wallet = NoWallet THEN ErrorsNew("wallet not found")
                  ELSE IF transaction.Type = TransactionTypeDebit
                          /\ wallet.Balance < transaction.Amount
                       THEN ErrInsufficientBalance
                  ELSE NoErr
       IN IF err # NoErr
          THEN Leave(c, "CompleteTransaction", inflight[c].args, err, NoTransaction)
          ELSE /\ inflight' = [inflight EXCEPT ![c].read = <<wallet>>]
               /\ UNCHANGED last
    /\ UNCHANGED <<wallets, txns>>

\* UpdateWallet, UpdateTransaction and Commit of CompleteTransaction, with the
\* rows found and read
CompleteCommit(c) ==
    /\ inflight[c] # Idle
    /\ inflight[c].pc = "CompleteTransaction"
    /\ Len(inflight[c].read) = 1
    /\ LET transaction == inflight[c].found[1]
           wallet == inflight[c].read[1]
           newBalance == CompleteBalance(wallet.Balance, transaction)
       IN /\ wallets' = UpdateWallet(wallets, [wallet EXCEPT !.Balance = newBalance])
          /\ txns' = UpdateTransaction(txns,
                        [transaction EXCEPT !.Status = TransactionStatusCompleted,
                                            !.CompletedAt = "now",
                                            !.Balance = newBalance])
          /\ Leave(c, "CompleteTransaction", inflight[c].args, NoErr, NoTransaction)

(***************************************************************************)
(* The mutators, step by step. A mutator reads the row with                *)
(* m.store.FindWallet and later writes the whole row it read, with one     *)
(* field changed, with m.store.UpdateWallet; neither call belongs to a     *)
(* unit of work. The read returns the committed row without waiting; the   *)
(* write waits while a unit of work of another caller holds the row.       *)
(***************************************************************************)
\* m.store.FindWallet and the nil check of a mutator
MutateRead(c, op, args, walletID) ==
    /\ inflight[c] = Idle
    /\ IF FindWallet(walletID) = NoWallet
       THEN Leave(c, op, args, ErrorsNew("wallet not found"), NoWallet)
       ELSE /\ inflight' = [inflight EXCEPT ![c] = [pc |-> op, args |-> args,
                                                    read |-> <<>>,
                                                    wallet |-> FindWallet(walletID)]]
            /\ UNCHANGED last
    /\ UNCHANGED <<wallets, txns>>

\* m.store.UpdateWallet of a mutator: the row it read, changed, is saved whole
MutateWrite(c, op, changed) ==
    /\ Free(c, changed.ID)
    /\ wallets' = UpdateWallet(wallets, changed)
    /\ Leave(c, op, inflight[c].args, NoErr, NoWallet)
    /\ UNCHANGED txns

FreezeWalletRead(c, walletID, reason) ==
    MutateRead(c, "FreezeWallet", <<walletID, reason>>, walletID)

FreezeWalletWrite(c) ==
    /\ inflight[c] # Idle
    /\ inflight[c].pc = "FreezeWallet"
    /\ MutateWrite(c, "FreezeWallet", [inflight[c].wallet EXCEPT !.Frozen = TRUE])

UpdateWalletDescriptionRead(c, walletID, description) ==
    MutateRead(c, "UpdateWalletDescription", <<walletID, description>>, walletID)

UpdateWalletDescriptionWrite(c) ==
    /\ inflight[c] # Idle
    /\ inflight[c].pc = "UpdateWalletDescription"
    /\ MutateWrite(c, "UpdateWalletDescription",
                   [inflight[c].wallet EXCEPT !.Description = inflight[c].args[2]])

(***************************************************************************)
(* The life of a unit of work inside a method. Begin opens it, the         *)
(* deferred txn.Rollback() is registered on the next line, the body runs   *)
(* to an error return or to Commit, and the deferred call runs when the    *)
(* method returns. A caller's record keeps the state of the unit of work   *)
(* of its last call: "none" (returned before Begin), "open", "committed"   *)
(* or "rolled back". failing names the store call that fails, if any.      *)
(***************************************************************************)
CloseFailings == {"none", "Find", "Commit"}

\* the callers whose calls are followed step by step
CloseCallers == {"c1"}

\* the check made before Begin (Credit: the amount)
BeforeBegin(op, args) ==
    IF op = "Credit" /\ args[2] <= 0 THEN ErrInvalidAmount ELSE NoErr

\* what the body returns before it reaches Commit
BodyErr(op, args, failing) ==
    IF failing = "Find" THEN StoreFailure
    ELSE IF op = "Credit" THEN CreditErr(args[1], args[2])
    ELSE IF op = "CompleteTransaction" THEN CompleteTransactionErr(args[1])
    ELSE IF FindTransaction(args[1]) = NoTransaction THEN ErrTransactionNotFound
    ELSE IF FindTransaction(args[1]).Status # TransactionStatusPending
         THEN ErrPendingTransactionOnly
    ELSE NoErr

\* the rows the body has written when it reaches Commit
BodyWrites(op, args) ==
    IF op = "Credit"
    THEN LET wallet == FindWallet(args[1])
             newBalance == CreditNewBalance(wallet.Balance, args[2])
             transaction == NewTransaction(Len(txns) + 1, args[1], TransactionTypeCredit,
                                           args[2], newBalance, CallerReference(args[3]),
                                           TransactionStatusCompleted)
         IN [wallets |-> UpdateWallet(wallets, [wallet EXCEPT !.Balance = newBalance]),
             txns |-> SaveTransaction(txns, transaction),
             res |-> transaction]
    ELSE IF op = "CompleteTransaction"
    THEN LET transaction == FindTransaction(args[1])
             wallet == FindWallet(transaction.WalletID)
             newBalance == CompleteBalance(wallet.Balance, transaction)
         IN [wallets |-> UpdateWallet(wallets, [wallet EXCEPT !.Balance = newBalance]),
             txns |-> UpdateTransaction(txns,
                         [transaction EXCEPT !.Status = TransactionStatusCompleted,
                                             !.CompletedAt = "now",
                                             !.Balance = newBalance]),
             res |-> NoTransaction]
    ELSE [wallets |-> wallets,
          txns |-> UpdateTransaction(txns,
                      [FindTransaction(args[1]) EXCEPT
                          !.Status = TransactionStatusCancelled,
                          !.FailedReason = args[2]]),
          res |-> NoTransaction]

\* a method without the deferred call
RunDeferredNothing(txn) == txn

\* defer txn.Rollback(): closes a unit of work that is open, and does nothing
\* to one that Commit has closed
RunDeferred(txn) == IF txn = "open" THEN "rolled back" ELSE txn

\* Credit calls past Begin that may still insert a transaction row
CreditsOpen ==
    Cardinality({c \in Callers : inflight[c].pc = "body" /\ inflight[c].op = "Credit"})

\* the call up to the deferred registration: the check before Begin, Begin, defer
CloseEnter(c, op, args, failing) ==
    /\ inflight[c].pc \in {"idle", "returned"}
    /\ IF BeforeBegin(op, args) # NoErr
       THEN /\ inflight' = [inflight EXCEPT ![c] =
                               [pc |-> "returned", op |-> op,
                                err |-> BeforeBegin(op, args), txn |-> "none"]]
            /\ last' = Call(op, args, BeforeBegin(op, args), NoTransaction)
       ELSE /\ inflight' = [inflight EXCEPT ![c] =
                               [pc |-> "body", op |-> op, args |-> args,
                                failing |-> failing, txn |-> "open"]]
            /\ UNCHANGED last
    /\ UNCHANGED <<wallets, txns>>

\* the body from the first read to the return statement: an error return leaves
\* the unit of work open, Commit closes it unless Commit itself fails
CloseBody(c) ==
    /\ inflight[c].pc = "body"
    /\ LET op == inflight[c].op
           args == inflight[c].args
           failing == inflight[c].failing
           err == BodyErr(op, args, failing)
           written == BodyWrites(op, args)
       IN IF err # NoErr
          THEN /\ inflight' = [inflight EXCEPT ![c] =
                                  [pc |-> "return", op |-> op, args |-> args,
                                   err |-> err, res |-> NoTransaction, txn |-> "open"]]
               /\ UNCHANGED <<wallets, txns>>
          ELSE IF failing = "Commit"
          THEN /\ inflight' = [inflight EXCEPT ![c] =
                                  [pc |-> "return", op |-> op, args |-> args,
                                   err |-> StoreFailure, res |-> NoTransaction,
                                   txn |-> "open"]]
               /\ UNCHANGED <<wallets, txns>>
          ELSE /\ inflight' = [inflight EXCEPT ![c] =
                                  [pc |-> "return", op |-> op, args |-> args,
                                   err |-> NoErr, res |-> written.res,
                                   txn |-> "committed"]]
               /\ wallets' = written.wallets
               /\ txns' = written.txns
    /\ UNCHANGED last

\* the return: the deferred call runs and the caller has the result
CloseReturn(c) ==
    /\ inflight[c].pc = "return"
    /\ inflight' = [inflight EXCEPT ![c] =
                       [pc |-> "returned", op |-> inflight[c].op,
                        err |-> inflight[c].err,
                        txn |-> RunDeferred(inflight[c].txn)]]
    /\ last' = Call(inflight[c].op, inflight[c].args, inflight[c].err, inflight[c].res)
    /\ UNCHANGED <<wallets, txns>>

(***************************************************************************)
(* Next-state relation                                                     *)
(***************************************************************************)
TransactionIDs == 1..MaxTxns

TransactionTypes == {TransactionTypeCredit, TransactionTypeDebit}

\* the description that goes with a name in the calls of SpecWallets
DescriptionOf(n) == IF n = "n1" THEN "d1" ELSE "d2"

\* amounts passed in SpecGates
GateAmounts == {0, 1}

\* wallet lifecycle: creation, primacy, activity and reference of the wallets of two users
NextWallets ==
    \/ \E u \in Users, n \in Names, r \in References :
          CreateWallet(u, n, DescriptionOf(n), r)
    \/ \E w \in WalletIDs : SetPrimaryWallet(w)
    \/ \E w \in WalletIDs, b \in BOOLEAN : UpdateWalletActive(w, b)
    \/ \E w \in WalletIDs, r \in References : UpdateWalletReference(w, r)

\* balances and history: Credit, Debit and Transfer on active, unfrozen wallets
NextLedger ==
    \/ \E r \in References : CreateWallet("u1", "n1", "d1", r)
    \/ \E w \in WalletIDs, a \in Amounts, r \in TxnReferences : Credit(w, a, r)
    \/ \E w \in WalletIDs, a \in Amounts, r \in TxnReferences : Debit(w, a, r)
    \/ \E f \in WalletIDs, t \in WalletIDs, a \in Amounts : Transfer(f, t, a)

\* the state gates: Credit, Debit and Transfer on wallets that are frozen or inactive
NextGates ==
    \/ \E r \in References : CreateWallet("u1", "n1", "d1", r)
    \/ \E w \in WalletIDs, b \in BOOLEAN : UpdateWalletActive(w, b)
    \/ \E w \in WalletIDs, r \in Reasons : FreezeWallet(w, r)
    \/ \E w \in WalletIDs : UnfreezeWallet(w)
    \/ \E w \in WalletIDs, a \in GateAmounts, r \in TxnReferences : Credit(w, a, r)
    \/ \E w \in WalletIDs, a \in GateAmounts, r \in TxnReferences : Debit(w, a, r)
    \/ \E f \in WalletIDs, t \in WalletIDs, a \in GateAmounts : Transfer(f, t, a)

\* the statuses of the rows a caller inserts through the store
InsertedStatuses == {TransactionStatusPending, TransactionStatusFailed}

\* amounts passed in SpecPending
PendingAmounts == {1}

\* wallet ids passed in SpecPending: the two wallets of user u1
PendingWallets == {1, 2}

\* pending transactions: inserted through the store, then completed or cancelled,
\* next to the calls that move the balance meanwhile
NextPending ==
    \/ \E r \in References : CreateWallet("u1", "n1", "d1", r)
    \/ \E w \in PendingWallets, ty \in TransactionTypes, a \in PendingAmounts,
          r \in TxnReferences, st \in InsertedStatuses :
             StoreSaveTransaction(w, ty, a, r, st) /\ Len(txns') <= MaxPendingTxns
    \/ \E t \in TransactionIDs, r \in Reasons : CancelTransaction(t, r)
    \/ \E t \in TransactionIDs : CompleteTransaction(t)
    \/ \E w \in PendingWallets, a \in PendingAmounts, r \in TxnReferences :
          Credit(w, a, r) /\ Len(txns') <= MaxPendingTxns
    \/ \E w \in PendingWallets, a \in PendingAmounts, r \in TxnReferences :
          Debit(w, a, r) /\ Len(txns') <= MaxPendingTxns
    \/ \E f \in PendingWallets, t \in PendingWallets, a \in PendingAmounts :
          Transfer(f, t, a) /\ Len(txns') <= MaxPendingTxns

\* where transaction records come from: Credit, Debit, Transfer and direct inserts
NextRecords ==
    \/ \E r \in References : CreateWallet("u1", "n1", "d1", r)
    \/ \E w \in PendingWallets, ty \in TransactionTypes, a \in PendingAmounts,
          r \in TxnReferences, st \in InsertedStatuses :
             StoreSaveTransaction(w, ty, a, r, st)
    \/ \E w \in PendingWallets, a \in PendingAmounts, r \in TxnReferences : Credit(w, a, r)
    \/ \E w \in PendingWallets, a \in PendingAmounts, r \in TxnReferences : Debit(w, a, r)
    \/ \E f \in PendingWallets, t \in PendingWallets, a \in PendingAmounts :
          Transfer(f, t, a)

\* primacy over a store whose calls can fail
NextPrimary ==
    \/ \E u \in Users, r \in References : CreateWallet(u, "n1", "d1", r)
    \/ \E w \in WalletIDs, b \in BOOLEAN : UpdateWalletActive(w, b)
    \/ \E w \in WalletIDs, failing \in Failings(SetPrimaryWalletCalls) :
          SetPrimaryWalletUnitOfWork(w, failing)

\* transaction ids passed in SpecFaults: the stored ones and an absent one
FaultTransactionIDs == 1..(MaxFaultTxns + 1)

\* every method that opens a unit of work, over a store whose calls can fail
NextFaults ==
    \/ \E r \in References, failing \in Failings(CreateWalletCalls) :
          CreateWalletUnitOfWork("u1", "n1", "d1", r, failing)
    \/ \E w \in PendingWallets, failing \in Failings(SetPrimaryWalletCalls) :
          SetPrimaryWalletUnitOfWork(w, failing)
    \/ \E w \in PendingWallets, ty \in TransactionTypes, a \in PendingAmounts,
          r \in TxnReferences :
             StoreSaveTransaction(w, ty, a, r, TransactionStatusPending)
                /\ Len(txns') <= MaxFaultTxns
    \/ \E w \in PendingWallets, a \in PendingAmounts, r \in TxnReferences,
          failing \in Failings(CreditCalls) :
             CreditUnitOfWork(w, a, r, failing) /\ Len(txns') <= MaxFaultTxns
    \/ \E w \in PendingWallets, a \in PendingAmounts, r \in TxnReferences,
          failing \in Failings(DebitCalls) :
             DebitUnitOfWork(w, a, r, failing) /\ Len(txns') <= MaxFaultTxns
    \/ \E f \in PendingWallets : \E t \in PendingWallets \ {f}, a \in PendingAmounts,
          failing \in Failings(TransferCalls) :
             TransferUnitOfWork(f, t, a, failing) /\ Len(txns') <= MaxFaultTxns
    \/ \E t \in FaultTransactionIDs, r \in Reasons, failing \in Failings(CancelTransactionCalls) :
          CancelTransactionUnitOfWork(t, r, failing)
    \/ \E t \in FaultTransactionIDs, failing \in Failings(CompleteTransactionCalls) :
          CompleteTransactionUnitOfWork(t, failing)

\* every method that opens a unit of work, over a store whose calls succeed
NextCommits ==
    \/ \E r \in References : CreateWalletUnitOfWork("u1", "n1", "d1", r, "none")
    \/ \E w \in PendingWallets : SetPrimaryWalletUnitOfWork(w, "none")
    \/ \E ty \in TransactionTypes, a \in PendingAmounts, r \in TxnReferences :
          StoreSaveTransaction(1, ty, a, r, TransactionStatusPending)
    \/ \E w \in PendingWallets, a \in PendingAmounts, r \in TxnReferences :
          CreditUnitOfWork(w, a, r, "none")
    \/ \E w \in PendingWallets, a \in PendingAmounts, r \in TxnReferences :
          DebitUnitOfWork(w, a, r, "none")
    \/ \E f \in PendingWallets : \E t \in PendingWallets \ {f}, a \in PendingAmounts :
          TransferUnitOfWork(f, t, a, "none")
    \/ \E t \in TransactionIDs, r \in Reasons : CancelTransactionUnitOfWork(t, r, "none")
    \/ \E t \in TransactionIDs : CompleteTransactionUnitOfWork(t, "none")

\* the calls the sub-specifications above leave out
\* amounts credited in SpecSummary
SummaryAmounts == {1}

\* wallet ids passed in SpecSummary
SummaryWallets == {1, 2}

\* the summary next to the calls that change what it reports
NextSummary ==
    \/ \E u \in Users, r \in References : CreateWallet(u, "n1", "d1", r)
    \/ \E w \in SummaryWallets, b \in BOOLEAN : UpdateWalletActive(w, b)
    \/ \E w \in SummaryWallets, r \in Reasons : FreezeWallet(w, r)
    \/ \E w \in SummaryWallets, a \in SummaryAmounts, r \in TxnReferences :
          /\ Credit(w, a, r)
          /\ Len(txns') <= MaxSummaryTxns
    \/ \E u \in Users : GetUserWalletSummary(u)

\* the primary-wallet lookup next to the calls that change what it reports
NextLookup ==
    \/ \E u \in Users, r \in References : CreateWallet(u, "n1", "d1", r)
    \/ \E w \in WalletIDs : SetPrimaryWallet(w)
    \/ \E w \in WalletIDs, b \in BOOLEAN : UpdateWalletActive(w, b)
    \/ \E u \in Users : GetPrimaryWallet(u)

\* wallet ids passed to the mutators in SpecMutators
MutatedWallets == {1}

\* the single-field mutators on a wallet with a balance and a pending transaction
NextMutators ==
    \/ \E r \in References : CreateWallet("u1", "n1", "d1", r)
    \/ \E w \in PendingWallets, a \in PendingAmounts, r \in TxnReferences :
          Credit(w, a, r) /\ Len(txns') <= MaxMutatorTxns
    \/ \E w \in MutatedWallets, a \in PendingAmounts, r \in TxnReferences :
          /\ StoreSaveTransaction(w, TransactionTypeDebit, a, r, TransactionStatusPending)
          /\ Len(txns') <= MaxMutatorTxns
    \/ \E w \in MutatedWallets, b \in BOOLEAN : UpdateWalletActive(w, b)
    \/ \E w \in MutatedWallets, n \in Names : UpdateWalletName(w, n)
    \/ \E w \in MutatedWallets, d \in Descriptions : UpdateWalletDescription(w, d)
    \/ \E w \in MutatedWallets, r \in References : UpdateWalletReference(w, r)
    \/ \E w \in MutatedWallets, r \in Reasons : FreezeWallet(w, r)
    \/ \E w \in MutatedWallets : UnfreezeWallet(w)
    \/ \E w \in MutatedWallets, r \in Reasons : FlagWalletRisk(w, r)
    \/ \E w \in MutatedWallets : ClearWalletRiskFlag(w)

\* wallets that receive Credit and Debit calls only, failing calls among them
NextReplay ==
    \/ \E r \in References : CreateWallet("u1", "n1", "d1", r)
    \/ \E w \in WalletIDs, a \in Amounts, r \in TxnReferences : Credit(w, a, r)
    \/ \E w \in WalletIDs, a \in Amounts, r \in TxnReferences : Debit(w, a, r)

\* wallet id the mutators are called with in SpecIdentity
RenamedWallets == {2}

\* every operation that writes: the balance and the transactions of wallet 1 move,
\* the fields of wallet 2 are rewritten
NextIdentity ==
    \/ \E r \in References : CreateWallet("u1", "n1", "d1", r)
    \/ \E w \in PendingWallets : SetPrimaryWallet(w)
    \/ \E w \in RenamedWallets, b \in BOOLEAN : UpdateWalletActive(w, b)
    \/ \E w \in RenamedWallets : UpdateWalletName(w, "n2")
    \/ \E w \in RenamedWallets : UpdateWalletDescription(w, "d2")
    \/ \E w \in RenamedWallets : UpdateWalletReference(w, "r1")
    \/ \E w \in RenamedWallets, r \in Reasons : FreezeWallet(w, r)
    \/ \E w \in RenamedWallets : UnfreezeWallet(w)
    \/ \E w \in RenamedWallets, r \in Reasons : FlagWalletRisk(w, r)
    \/ \E w \in RenamedWallets : ClearWalletRiskFlag(w)
    \/ \E a \in PendingAmounts, r \in TxnReferences :
          Credit(1, a, r) /\ Len(txns') <= MaxIdentityTxns
    \/ \E a \in PendingAmounts, r \in TxnReferences :
          Debit(1, a, r) /\ Len(txns') <= MaxIdentityTxns
    \/ \E a \in PendingAmounts :
          Transfer(1, 2, a) /\ Len(txns') <= MaxIdentityTxns
    \/ \E ty \in TransactionTypes, a \in PendingAmounts, r \in TxnReferences :
          /\ StoreSaveTransaction(1, ty, a, r, TransactionStatusPending)
          /\ Len(txns') <= MaxIdentityTxns
    \/ \E t \in TransactionIDs, r \in Reasons : CancelTransaction(t, r)
    \/ \E t \in TransactionIDs : CompleteTransaction(t)

\* CreateWallet calls of two callers, step by step
NextCreation ==
    \/ \E c \in Callers, u \in Users, n \in Names, r \in References :
          CreateWalletCheck(c, u, n, DescriptionOf(n), r)
    \/ \E c \in Callers : CreateWalletInsert(c)

\* Credit, Debit and Transfer calls of two callers, step by step
NextIsolation ==
    \/ \E r \in References : CreateWallet("u1", "n1", "d1", r)
    \/ \E c \in Callers, w \in PendingWallets, a \in GateAmounts, r \in TxnReferences :
          Enter(c, "Credit", <<w, a, r>>, a)
    \/ \E c \in Callers, w \in PendingWallets, a \in GateAmounts, r \in TxnReferences :
          Enter(c, "Debit", <<w, a, r>>, a)
    \/ \E c \in Callers, f \in PendingWallets, t \in PendingWallets, a \in GateAmounts :
          Enter(c, "Transfer", <<f, t, a>>, a)
    \/ \E c \in Callers : CreditRead(c)
    \/ \E c \in Callers : DebitRead(c)
    \/ \E c \in Callers : TransferReadSource(c)
    \/ \E c \in Callers : TransferReadDestination(c)
    \/ \E c \in Callers : CreditCommit(c) /\ Len(txns') <= MaxIsolationTxns
    \/ \E c \in Callers : DebitCommit(c) /\ Len(txns') <= MaxIsolationTxns
    \/ \E c \in Callers : TransferCommit(c) /\ Len(txns') <= MaxIsolationTxns

\* pending transactions completed on wallets that are frozen or inactive
NextUngated ==
    \/ \E r \in References : CreateWallet("u1", "n1", "d1", r)
    \/ \E w \in PendingWallets, b \in BOOLEAN : UpdateWalletActive(w, b)
    \/ \E w \in PendingWallets, r \in Reasons : FreezeWallet(w, r)
    \/ \E w \in PendingWallets : UnfreezeWallet(w)
    \/ \E w \in PendingWallets, a \in PendingAmounts, r \in TxnReferences :
          Credit(w, a, r) /\ Len(txns') <= MaxUngatedTxns
    \/ \E w \in PendingWallets, ty \in TransactionTypes, a \in PendingAmounts,
          r \in TxnReferences :
             /\ StoreSaveTransaction(w, ty, a, r, TransactionStatusPending)
             /\ Len(txns') <= MaxUngatedTxns
    \/ \E t \in TransactionIDs : CompleteTransaction(t)

\* units of work of two callers against the store
NextStore ==
    \/ \E c \in Callers : TxnBegin(c)
    \/ \E c \in Callers, w \in WalletIDs, n \in Names : TxnSaveWallet(c, w, n)
    \/ \E c \in Callers, w \in WalletIDs : TxnFindWallet(c, w)
    \/ \E w \in WalletIDs : StoreFindWallet(w)
    \/ \E c \in Callers : TxnCommit(c)
    \/ \E c \in Callers : TxnRollback(c)

\* CompleteTransaction and CancelTransaction calls of two callers, step by step,
\* on pending transactions inserted through the store
NextResolve ==
    \/ CreateWallet("u1", "n1", "d1", "r1")
    \/ \E ty \in TransactionTypes, a \in PendingAmounts, r \in TxnReferences :
          /\ StoreSaveTransaction(1, ty, a, r, TransactionStatusPending)
          /\ Len(txns') <= MaxResolveTxns
    \/ \E c \in Callers, t \in TransactionIDs :
          ResolveEnter(c, "CompleteTransaction", <<t>>)
    \/ \E c \in Callers, t \in TransactionIDs, r \in Reasons :
          ResolveEnter(c, "CancelTransaction", <<t, r>>)
    \/ \E c \in Callers : ResolveFind(c)
    \/ \E c \in Callers : CancelCommit(c)
    \/ \E c \in Callers : CompleteRead(c)
    \/ \E c \in Callers : CompleteCommit(c)

\* mutators and credits of two callers on one wallet, step by step
NextStale ==
    \/ CreateWallet("u1", "n1", "d1", "r1")
    \/ \E c \in Callers, r \in Reasons : FreezeWalletRead(c, 1, r)
    \/ \E c \in Callers : FreezeWalletWrite(c)
    \/ \E c \in Callers, d \in Descriptions : UpdateWalletDescriptionRead(c, 1, d)
    \/ \E c \in Callers : UpdateWalletDescriptionWrite(c)
    \/ \E c \in Callers, a \in GateAmounts, r \in TxnReferences :
          Enter(c, "Credit", <<1, a, r>>, a)
    \/ \E c \in Callers : CreditRead(c)
    \/ \E c \in Callers : CreditCommit(c) /\ Len(txns') <= MaxStaleTxns

\* units of work of two callers from Begin to the return of the method
NextClose ==
    \/ CreateWallet("u1", "n1", "d1", "r1")
    \/ \E r \in Reasons : FreezeWallet(1, r)
    \/ \E ty \in TransactionTypes, r \in TxnReferences :
          /\ Len(txns) + CreditsOpen < MaxCloseTxns
          /\ StoreSaveTransaction(1, ty, 1, r, TransactionStatusPending)
    \/ \E c \in CloseCallers, a \in GateAmounts, r \in TxnReferences, f \in CloseFailings :
          /\ Len(txns) + CreditsOpen < MaxCloseTxns
          /\ CloseEnter(c, "Credit", <<1, a, r>>, f)
    \/ \E c \in CloseCallers, t \in 1..MaxCloseTxns, r \in Reasons, f \in CloseFailings :
          CloseEnter(c, "CancelTransaction", <<t, r>>, f)
    \/ \E c \in CloseCallers, t \in 1..MaxCloseTxns, f \in CloseFailings :
          CloseEnter(c, "CompleteTransaction", <<t>>, f)
    \/ \E c \in CloseCallers : CloseBody(c)
    \/ \E c \in CloseCallers : CloseReturn(c)

NextOther ==
    \/ \E w \in WalletIDs, n \in Names : UpdateWalletName(w, n)
    \/ \E w \in WalletIDs, d \in Descriptions : UpdateWalletDescription(w, d)
    \/ \E w \in WalletIDs, r \in Reasons : FlagWalletRisk(w, r)
    \/ \E w \in WalletIDs : ClearWalletRiskFlag(w)
    \/ \E w \in WalletIDs, ty \in TransactionTypes, a \in PositiveAmounts,
          r \in TxnReferences, st \in InsertedStatuses :
             StoreSaveTransaction(w, ty, a, r, st)
    \/ \E t \in TransactionIDs, r \in Reasons : CancelTransaction(t, r)
    \/ \E t \in TransactionIDs : CompleteTransaction(t)

Next ==
    \/ NextWallets
    \/ NextLedger
    \/ NextGates
    \/ NextPending
    \/ NextRecords
    \/ NextPrimary
    \/ NextFaults
    \/ NextCommits
    \/ NextSummary
    \/ NextLookup
    \/ NextMutators
    \/ NextReplay
    \/ NextIdentity
    \/ NextCreation
    \/ NextIsolation
    \/ NextUngated
    \/ NextStore
    \/ NextResolve
    \/ NextStale
    \/ NextClose
    \/ NextOther

\* every call, in any order
Spec == Init /\ [][Next]_vars

SpecWallets == Init /\ [][NextWallets]_vars

SpecLedger == Init /\ [][NextLedger]_vars

SpecGates == Init /\ [][NextGates]_vars

SpecPending == Init /\ [][NextPending]_vars

SpecRecords == Init /\ [][NextRecords]_vars

SpecPrimary == Init /\ [][NextPrimary]_vars

SpecFaults == Init /\ [][NextFaults]_vars

SpecCommits == Init /\ [][NextCommits]_vars

SpecSummary == Init /\ [][NextSummary]_vars

SpecLookup == Init /\ [][NextLookup]_vars

SpecMutators == Init /\ [][NextMutators]_vars

SpecReplay == Init /\ [][NextReplay]_vars

SpecIdentity == Init /\ [][NextIdentity]_vars

SpecCreation == Init /\ [][NextCreation]_vars

SpecIsolation == Init /\ [][NextIsolation]_vars

SpecUngated == Init /\ [][NextUngated]_vars

SpecStore == Init /\ [][NextStore]_vars

SpecResolve == Init /\ [][NextResolve]_vars

SpecStale == Init /\ [][NextStale]_vars

\* a call in progress is not suspended for ever: the engine has no thread of its
\* own and each step of a method runs in the caller's
SpecClose ==
    /\ Init
    /\ [][NextClose]_vars
    /\ \A c \in CloseCallers : WF_vars(CloseBody(c)) /\ WF_vars(CloseReturn(c))

(***************************************************************************)
(* Vocabulary of the properties                                            *)
(***************************************************************************)
\* the kind of an error is told by its text
SameKind(err, sentinel) == err.msg = sentinel.msg

Existing == DOMAIN wallets

\* the rows a step appended to the transaction table
NewRows == SubSeq(txns', Len(txns) + 1, Len(txns'))

HistoryKept == Len(txns') >= Len(txns) /\ SubSeq(txns', 1, Len(txns)) = txns

\* replay of the first n rows for wallet w, in int64 arithmetic, starting from zero
RECURSIVE Replay(_, _)
Replay(w, n) ==
    IF n = 0 THEN 0
    ELSE LET t == txns[n]
             before == Replay(w, n - 1)
         IN IF t.WalletID = w /\ t.Status = TransactionStatusCompleted
            THEN IF t.Type = TransactionTypeCredit
                 THEN Add64(before, t.Amount)
                 ELSE Sub64(before, t.Amount)
            ELSE before

\* the sum of the amounts of the first n rows of this type on wallet w
RECURSIVE SumOfAmounts(_, _, _, _)
SumOfAmounts(tbl, w, type, n) ==
    IF n = 0 THEN 0
    ELSE SumOfAmounts(tbl, w, type, n - 1)
            + (IF tbl[n].WalletID = w /\ tbl[n].Type = type THEN tbl[n].Amount ELSE 0)

Credited(tbl, w) == SumOfAmounts(tbl, w, TransactionTypeCredit, Len(tbl))

Debited(tbl, w) == SumOfAmounts(tbl, w, TransactionTypeDebit, Len(tbl))

(***************************************************************************)
(* C1: balance replay. For every wallet, the signed sum of its completed   *)
(* transactions (credit +amount, debit -amount), from zero, is its         *)
(* balance.                                                                *)
(***************************************************************************)
C1_BalanceReplay ==
    \A w \in Existing : wallets[w].Balance = Replay(w, Len(txns))

(***************************************************************************)
(* C2: no committed wallet balance is below zero.                          *)
(***************************************************************************)
C2_BalanceNeverNegative ==
    \A w \in Existing : wallets[w].Balance >= 0

(***************************************************************************)
(* C3: transfer atomicity. A Transfer(A, B, amt) call either succeeds,     *)
(* with A.balance down by amt, B.balance up by amt, one new completed      *)
(* debit row on A and one new completed credit row on B sharing one        *)
(* reference, or fails and leaves wallets and history as they were.        *)
(***************************************************************************)
C3_TransferAtomic ==
    [][last'.op = "Transfer" =>
        LET A == last'.args[1]
            B == last'.args[2]
            amt == last'.args[3]
        IN IF last'.err = NoErr
           THEN /\ wallets'[A].Balance = Sub64(wallets[A].Balance, amt)
                /\ wallets'[B].Balance = Add64(wallets[B].Balance, amt)
                /\ \A w \in Existing \ {A, B} : wallets'[w] = wallets[w]
                /\ HistoryKept
                /\ Len(NewRows) = 2
                /\ \E i, j \in 1..2 :
                      /\ i # j
                      /\ NewRows[i].WalletID = A
                      /\ NewRows[i].Type = TransactionTypeDebit
                      /\ NewRows[j].WalletID = B
                      /\ NewRows[j].Type = TransactionTypeCredit
                      /\ NewRows[i].Reference = NewRows[j].Reference
                /\ \A i \in 1..2 : /\ NewRows[i].Amount = amt
                                   /\ NewRows[i].Status = TransactionStatusCompleted
           ELSE UNCHANGED <<wallets, txns>>]_vars

(***************************************************************************)
(* C4: primary uniqueness. Each user has at most one wallet with           *)
(* primary = true, inactive wallets counted.                               *)
(***************************************************************************)
C4_PrimaryUnique ==
    \A u \in Users :
        Cardinality({w \in Existing : wallets[w].UserID = u /\ wallets[w].Primary}) <= 1

(***************************************************************************)
(* C5: reference uniqueness. No two wallets of one user have the same      *)
(* reference.                                                              *)
(***************************************************************************)
C5_ReferenceUnique ==
    \A v, w \in Existing :
        (v # w /\ wallets[v].UserID = wallets[w].UserID)
            => wallets[v].Reference # wallets[w].Reference

(***************************************************************************)
(* C6: idempotent creation. A CreateWallet call for a (userID, reference)  *)
(* that already has a wallet returns a stored wallet of that pair without  *)
(* error, inserts nothing and changes no stored row; a repeated call       *)
(* returns the same id.                                                    *)
(***************************************************************************)
C6_IdempotentCreate ==
    [][(/\ last'.op = "CreateWallet"
        /\ \E w \in Existing : /\ wallets[w].UserID = last'.args[1]
                               /\ wallets[w].Reference = last'.args[4])
       => /\ last'.err = NoErr
          /\ last'.res.ID \in Existing
          /\ last'.res = wallets[last'.res.ID]
          /\ last'.res.UserID = last'.args[1]
          /\ last'.res.Reference = last'.args[4]
          /\ UNCHANGED <<wallets, txns>>
          /\ (/\ last.op = "CreateWallet"
              /\ last.args[1] = last'.args[1]
              /\ last.args[4] = last'.args[4]) => last'.res.ID = last.res.ID]_vars

\* a call with another name and description got the stored wallet back
C6_Witness ==
    /\ last.op = "CreateWallet"
    /\ last.res.Name # last.args[2]
    /\ last.res.Description # last.args[3]
    /\ last.res = wallets[last.res.ID]

C8_DebitFloor ==
    [][(/\ last'.op = "Debit"
        /\ last'.args[1] \in Existing
        /\ wallets[last'.args[1]].Active
        /\ ~wallets[last'.args[1]].Frozen
        /\ last'.args[2] > 0)
       => LET w == last'.args[1]
              amount == last'.args[2]
          IN IF amount > wallets[w].Balance
             THEN /\ last'.err = ErrInsufficientBalance
                  /\ UNCHANGED <<wallets, txns>>
             ELSE /\ last'.err = NoErr
                  /\ wallets'[w].Balance = wallets[w].Balance - amount
                  /\ wallets'[w].Balance >= 0
                  /\ (amount = wallets[w].Balance => wallets'[w].Balance = 0)]_vars

\* a Debit above a positive balance was refused
C8_Witness ==
    /\ last.op = "Debit"
    /\ last.err = ErrInsufficientBalance
    /\ last.args[1] \in Existing
    /\ wallets[last.args[1]].Balance > 0
    /\ last.args[2] > wallets[last.args[1]].Balance

(***************************************************************************)
(* C9 as stated: a Credit or Debit (positive amount) on a frozen wallet,   *)
(* and a Transfer (positive amount, both wallets existing) whose source    *)
(* or destination is frozen, fails with WalletFrozen and changes no        *)
(* balance and no history.                                                 *)
(***************************************************************************)
FrozenWallet(w) == w \in Existing /\ wallets[w].Frozen

C9_FrozenGateAsStated ==
    [][/\ (/\ last'.op \in {"Credit", "Debit"}
           /\ last'.args[2] > 0
           /\ FrozenWallet(last'.args[1]))
          => /\ SameKind(last'.err, ErrWalletFrozen)
             /\ UNCHANGED <<wallets, txns>>
       /\ (/\ last'.op = "Transfer"
           /\ last'.args[3] > 0
           /\ last'.args[1] \in Existing
           /\ last'.args[2] \in Existing
           /\ (FrozenWallet(last'.args[1]) \/ FrozenWallet(last'.args[2])))
          => /\ SameKind(last'.err, ErrWalletFrozen)
             /\ UNCHANGED <<wallets, txns>>]_vars

(***************************************************************************)
(* C9 amended: a Credit, Debit or Transfer that involves a frozen wallet   *)
(* always fails and changes no balance and no history; the failure is      *)
(* WalletFrozen when every check made before the frozen check passes       *)
(* (amount > 0, the frozen wallet active; for a frozen destination also    *)
(* the source existing, active, unfrozen and holding the amount).          *)
(* UnfreezeWallet clears the flag and nothing else, and on an unfrozen     *)
(* wallet calls that pass the other checks succeed.                        *)
(***************************************************************************)
Usable(w) == w \in Existing /\ wallets[w].Active /\ ~wallets[w].Frozen

C9_FrozenGate ==
    [][/\ (last'.op \in {"Credit", "Debit"} /\ FrozenWallet(last'.args[1]))
          => /\ last'.err # NoErr
             /\ UNCHANGED <<wallets, txns>>
             /\ (last'.args[2] > 0 /\ wallets[last'.args[1]].Active)
                   => SameKind(last'.err, ErrWalletFrozen)
       /\ (/\ last'.op = "Transfer"
           /\ (FrozenWallet(last'.args[1]) \/ FrozenWallet(last'.args[2])))
          => LET f == last'.args[1]
                 t == last'.args[2]
                 a == last'.args[3]
             IN /\ last'.err # NoErr
                /\ UNCHANGED <<wallets, txns>>
                /\ (a > 0 /\ FrozenWallet(f) /\ wallets[f].Active)
                      => SameKind(last'.err, ErrWalletFrozen)
                /\ (/\ a > 0
                    /\ Usable(f)
                    /\ wallets[f].Balance >= a
                    /\ FrozenWallet(t)
                    /\ wallets[t].Active)
                      => SameKind(last'.err, ErrWalletFrozen)
       /\ (last'.op = "UnfreezeWallet" /\ last'.args[1] \in Existing)
          => /\ last'.err = NoErr
             /\ wallets' = [wallets EXCEPT ![last'.args[1]].Frozen = FALSE]
             /\ txns' = txns
       /\ (last'.op = "Credit" /\ last'.args[2] > 0 /\ Usable(last'.args[1]))
          => /\ last'.err = NoErr
             /\ wallets'[last'.args[1]].Balance
                   = Add64(wallets[last'.args[1]].Balance, last'.args[2])
       /\ (/\ last'.op = "Debit"
           /\ last'.args[2] > 0
           /\ Usable(last'.args[1])
           /\ wallets[last'.args[1]].Balance >= last'.args[2])
          => /\ last'.err = NoErr
             /\ wallets'[last'.args[1]].Balance
                   = Sub64(wallets[last'.args[1]].Balance, last'.args[2])
       /\ (/\ last'.op = "Transfer"
           /\ last'.args[3] > 0
           /\ Usable(last'.args[1])
           /\ Usable(last'.args[2])
           /\ wallets[last'.args[1]].Balance >= last'.args[3])
          => /\ last'.err = NoErr
             /\ Len(NewRows) = 2]_vars

\* a Transfer from a funded, usable source to a frozen destination was refused
C9_Witness ==
    /\ last.op = "Transfer"
    /\ last.err = ErrWalletFrozen
    /\ Usable(last.args[1])
    /\ wallets[last.args[1]].Balance >= last.args[3]
    /\ FrozenWallet(last.args[2])

(***************************************************************************)
(* C10: Credit and Debit check amount > 0, wallet exists, wallet active,   *)
(* wallet not frozen and (Debit) balance >= amount in this order and       *)
(* report the kind of the first check that fails; a failing call changes   *)
(* no wallet and no transaction.                                           *)
(***************************************************************************)
C10_ExpectedKind(op, w, amount) ==
    IF amount <= 0 THEN ErrInvalidAmount
    ELSE IF w \notin Existing THEN ErrWalletNotFound
    ELSE IF ~wallets[w].Active THEN ErrWalletInactive
    ELSE IF wallets[w].Frozen THEN ErrWalletFrozen
    ELSE IF op = "Debit" /\ wallets[w].Balance < amount THEN ErrInsufficientBalance
    ELSE NoErr

C10_PreconditionOrder ==
    [][last'.op \in {"Credit", "Debit"} =>
        /\ SameKind(last'.err, C10_ExpectedKind(last'.op, last'.args[1], last'.args[2]))
        /\ last'.err # NoErr => UNCHANGED <<wallets, txns>>]_vars

\* a Credit on a wallet that is both inactive and frozen reported WalletInactive
C10_Witness ==
    /\ last.op = "Credit"
    /\ last.err = ErrWalletInactive
    /\ FrozenWallet(last.args[1])
    /\ ~wallets[last.args[1]].Active

(***************************************************************************)
(* C11 as stated: Credit, Debit and Transfer are not gated by the active   *)
(* flag. On a wallet with active = false and frozen = false (positive      *)
(* amount, sufficient balance, the other wallet of a Transfer existing     *)
(* and unfrozen) the call is not blocked and changes the balance.          *)
(***************************************************************************)
InactiveUnfrozen(w) == w \in Existing /\ ~wallets[w].Active /\ ~wallets[w].Frozen

Unfrozen(w) == w \in Existing /\ ~wallets[w].Frozen

\* a Transfer of a positive, covered amount between unfrozen wallets, one of them inactive
C11_TransferOnInactive(f, t, a) ==
    /\ a > 0
    /\ Unfrozen(f)
    /\ Unfrozen(t)
    /\ f # t
    /\ wallets[f].Balance >= a
    /\ (InactiveUnfrozen(f) \/ InactiveUnfrozen(t))

C11_ActiveNotGatedAsStated ==
    [][/\ (/\ last'.op \in {"Credit", "Debit"}
           /\ last'.args[2] > 0
           /\ InactiveUnfrozen(last'.args[1])
           /\ (last'.op = "Debit" => wallets[last'.args[1]].Balance >= last'.args[2]))
          => /\ last'.err = NoErr
             /\ wallets'[last'.args[1]].Balance # wallets[last'.args[1]].Balance
       /\ (/\ last'.op = "Transfer"
           /\ C11_TransferOnInactive(last'.args[1], last'.args[2], last'.args[3]))
          => /\ last'.err = NoErr
             /\ wallets'[last'.args[1]].Balance # wallets[last'.args[1]].Balance]_vars

(***************************************************************************)
(* C11 amended: Credit, Debit and Transfer are gated by the active flag    *)
(* as well as by the frozen flag. On a wallet with active = false and      *)
(* frozen = false (positive amount, sufficient balance, the other wallet   *)
(* of a Transfer existing and unfrozen) the call fails with                *)
(* WalletInactive and changes no wallet and no transaction.                *)
(***************************************************************************)
C11_ActiveGate ==
    [][/\ (/\ last'.op \in {"Credit", "Debit"}
           /\ last'.args[2] > 0
           /\ InactiveUnfrozen(last'.args[1])
           /\ (last'.op = "Debit" => wallets[last'.args[1]].Balance >= last'.args[2]))
          => /\ SameKind(last'.err, ErrWalletInactive)
             /\ UNCHANGED <<wallets, txns>>
       /\ (/\ last'.op = "Transfer"
           /\ C11_TransferOnInactive(last'.args[1], last'.args[2], last'.args[3]))
          => /\ SameKind(last'.err, ErrWalletInactive)
             /\ UNCHANGED <<wallets, txns>>]_vars

\* a Debit of a covered amount on an inactive, unfrozen wallet was refused
C11_Witness ==
    /\ last.op = "Debit"
    /\ SameKind(last.err, ErrWalletInactive)
    /\ InactiveUnfrozen(last.args[1])
    /\ last.args[2] > 0
    /\ wallets[last.args[1]].Balance >= last.args[2]

(***************************************************************************)
(* C12: Transfer validation. Transfer requires amount > 0, then a source   *)
(* that exists, is active, is unfrozen and has balance >= amount, then a   *)
(* destination that exists, is active and is unfrozen. The call succeeds   *)
(* exactly when all of these hold (whatever the destination's balance),    *)
(* the error is the one of the first check that fails (all source checks   *)
(* before any destination check), and a failed call leaves wallets and     *)
(* transactions unchanged.                                                 *)
(***************************************************************************)
\* the text of the first check that fails: "" when none does, "missing" for an
\* absent wallet, which is only required to be an error
C12_FirstFailure(f, t, a) ==
    IF ~(a > 0) THEN ErrInvalidAmount.msg
    ELSE IF f \notin Existing THEN "missing"
    ELSE IF ~wallets[f].Active THEN ErrWalletInactive.msg
    ELSE IF wallets[f].Frozen THEN ErrWalletFrozen.msg
    ELSE IF ~(wallets[f].Balance >= a) THEN ErrInsufficientBalance.msg
    ELSE IF t \notin Existing THEN "missing"
    ELSE IF ~wallets[t].Active THEN ErrWalletInactive.msg
    ELSE IF wallets[t].Frozen THEN ErrWalletFrozen.msg
    ELSE ""

C12_TransferValidation ==
    [][last'.op = "Transfer" =>
        LET failure == C12_FirstFailure(last'.args[1], last'.args[2], last'.args[3])
        IN IF failure = ""
           THEN last'.err = NoErr
           ELSE /\ last'.err # NoErr
                /\ UNCHANGED <<wallets, txns>>
                /\ failure # "missing" => last'.err.msg = failure]_vars

\* an underfunded source and a frozen destination: InsufficientBalance was reported
C12_Witness ==
    /\ last.op = "Transfer"
    /\ last.err = ErrInsufficientBalance
    /\ Usable(last.args[1])
    /\ FrozenWallet(last.args[2])
    /\ wallets[last.args[1]].Balance < last.args[3]

(***************************************************************************)
(* C13: CompleteTransaction on a pending transaction whose wallet exists   *)
(* (and, for a debit, holds the amount) succeeds: the wallet's balance     *)
(* becomes balance + amount (credit) or balance - amount (debit), in the   *)
(* int64 arithmetic of the code, the transaction becomes completed with    *)
(* completedAt stamped and its balance field equal to the wallet's new     *)
(* balance, and nothing else changes. The two writes are committed         *)
(* together: a call that returns an error changes neither table.           *)
(***************************************************************************)
StoredTransactions == 1..Len(txns)

PendingTransaction(t) == t \in StoredTransactions /\ txns[t].Status = TransactionStatusPending

C13_CompleteEffect ==
    [][last'.op = "CompleteTransaction" =>
        LET id == last'.args[1]
            t == txns[id]
            w == t.WalletID
            applied == IF t.Type = TransactionTypeCredit
                       THEN Add64(wallets[w].Balance, t.Amount)
                       ELSE Sub64(wallets[w].Balance, t.Amount)
        IN /\ (/\ PendingTransaction(id)
               /\ w \in Existing
               /\ (t.Type = TransactionTypeDebit => wallets[w].Balance >= t.Amount))
              => /\ last'.err = NoErr
                 /\ wallets' = [wallets EXCEPT ![w].Balance = applied]
                 /\ txns' = [txns EXCEPT ![id] =
                                [t EXCEPT !.Status = TransactionStatusCompleted,
                                          !.CompletedAt = "now",
                                          !.Balance = applied]]
                 /\ txns'[id].Balance = wallets'[w].Balance
           /\ last'.err # NoErr => UNCHANGED <<wallets, txns>>]_vars

\* a pending credit was completed on a wallet whose balance was 0: both balances are the amount
C13_Witness ==
    /\ last.op = "CompleteTransaction"
    /\ last.err = NoErr
    /\ last.args[1] \in StoredTransactions
    /\ LET t == txns[last.args[1]]
       IN /\ t.Type = TransactionTypeCredit
          /\ t.Status = TransactionStatusCompleted
          /\ t.CompletedAt = "now"
          /\ t.Amount > 0
          /\ t.Balance = t.Amount
          /\ wallets[t.WalletID].Balance = t.Amount

(***************************************************************************)
(* C14: transaction status machine. The only status changes are            *)
(* pending -> completed, made by CompleteTransaction on that row, and      *)
(* pending -> cancelled, made by CancelTransaction on that row; no row is  *)
(* removed. CompleteTransaction and CancelTransaction fail with            *)
(* PendingTransactionOnly on a row that is not pending and with            *)
(* TransactionNotFound on an absent id, changing no transaction and no     *)
(* wallet.                                                                 *)
(***************************************************************************)
C14_StatusMachine ==
    [][/\ Len(txns') >= Len(txns)
       /\ \A i \in StoredTransactions :
             txns'[i].Status # txns[i].Status
                => /\ txns[i].Status = TransactionStatusPending
                   /\ last'.args[1] = i
                   /\ \/ /\ txns'[i].Status = TransactionStatusCompleted
                         /\ last'.op = "CompleteTransaction"
                      \/ /\ txns'[i].Status = TransactionStatusCancelled
                         /\ last'.op = "CancelTransaction"
       /\ last'.op \in {"CompleteTransaction", "CancelTransaction"}
             => /\ last'.args[1] \notin StoredTransactions
                   => /\ last'.err = ErrTransactionNotFound
                      /\ UNCHANGED <<wallets, txns>>
                /\ (/\ last'.args[1] \in StoredTransactions
                    /\ ~PendingTransaction(last'.args[1]))
                   => /\ last'.err = ErrPendingTransactionOnly
                      /\ UNCHANGED <<wallets, txns>>]_vars

\* CompleteTransaction was refused on a cancelled row next to a failed one
C14_Witness ==
    /\ last.op = "CompleteTransaction"
    /\ last.err = ErrPendingTransactionOnly
    /\ last.args[1] \in StoredTransactions
    /\ txns[last.args[1]].Status = TransactionStatusCancelled
    /\ \E i \in StoredTransactions : txns[i].Status = TransactionStatusFailed

(***************************************************************************)
(* C15: balance re-check at completion. CompleteTransaction on a pending   *)
(* debit whose wallet exists fails with InsufficientBalance when the       *)
(* amount exceeds the wallet's current balance, leaving the transaction    *)
(* pending and the balance unchanged, and succeeds when the current        *)
(* balance covers the amount, whatever the balance was before.             *)
(***************************************************************************)
C15_CompletionRecheck ==
    [][(/\ last'.op = "CompleteTransaction"
        /\ PendingTransaction(last'.args[1])
        /\ txns[last'.args[1]].Type = TransactionTypeDebit
        /\ txns[last'.args[1]].WalletID \in Existing)
       => LET id == last'.args[1]
              t == txns[id]
              w == t.WalletID
          IN IF t.Amount > wallets[w].Balance
             THEN /\ last'.err = ErrInsufficientBalance
                  /\ txns'[id].Status = TransactionStatusPending
                  /\ UNCHANGED <<wallets, txns>>
             ELSE /\ last'.err = NoErr
                  /\ txns'[id].Status = TransactionStatusCompleted
                  /\ wallets'[w].Balance = wallets[w].Balance - t.Amount]_vars

\* a pending debit above the balance was refused and is still pending
C15_Witness ==
    /\ last.op = "CompleteTransaction"
    /\ last.err = ErrInsufficientBalance
    /\ PendingTransaction(last.args[1])
    /\ txns[last.args[1]].Type = TransactionTypeDebit
    /\ txns[last.args[1]].WalletID \in Existing
    /\ txns[last.args[1]].Amount > wallets[txns[last.args[1]].WalletID].Balance

(***************************************************************************)
(* C16: CancelTransaction on a pending transaction succeeds, sets its      *)
(* status to cancelled and its failedReason to the given reason, and       *)
(* changes no other field, no other transaction and no wallet.             *)
(***************************************************************************)
C16_CancelFrame ==
    [][(last'.op = "CancelTransaction" /\ PendingTransaction(last'.args[1]))
       => /\ last'.err = NoErr
          /\ txns' = [txns EXCEPT ![last'.args[1]] =
                         [@ EXCEPT !.Status = TransactionStatusCancelled,
                                   !.FailedReason = last'.args[2]]]
          /\ wallets' = wallets]_vars

\* a pending transaction on a funded wallet was cancelled with its reason
C16_Witness ==
    /\ last.op = "CancelTransaction"
    /\ last.err = NoErr
    /\ last.args[1] \in StoredTransactions
    /\ txns[last.args[1]].Status = TransactionStatusCancelled
    /\ txns[last.args[1]].FailedReason = last.args[2]
    /\ txns[last.args[1]].WalletID \in Existing
    /\ wallets[txns[last.args[1]].WalletID].Balance > 0

(***************************************************************************)
(* C17: Credit, Debit and Transfer never create a pending transaction.     *)
(* Every row one of them appends is completed, a row that appears pending  *)
(* was inserted directly through the store, and no stored row turns        *)
(* pending.                                                                *)
(***************************************************************************)
C17_NoPendingFromLedger ==
    [][/\ last'.op \in {"Credit", "Debit", "Transfer"}
          => \A i \in 1..Len(NewRows) : NewRows[i].Status = TransactionStatusCompleted
       /\ (\E i \in 1..Len(NewRows) : NewRows[i].Status = TransactionStatusPending)
          => last'.op = "store.SaveTransaction"
       /\ \A i \in StoredTransactions :
             txns'[i].Status = TransactionStatusPending
                => txns[i].Status = TransactionStatusPending]_vars

\* a Transfer between two wallets appended its two rows, both completed
C17_Witness ==
    /\ last.op = "Transfer"
    /\ last.err = NoErr
    /\ last.args[1] # last.args[2]
    /\ Len(txns) >= 3
    /\ txns[Len(txns)].WalletID = last.args[2]
    /\ txns[Len(txns)].Status = TransactionStatusCompleted
    /\ txns[Len(txns) - 1].WalletID = last.args[1]
    /\ txns[Len(txns) - 1].Status = TransactionStatusCompleted

(***************************************************************************)
(* C18: a wallet newly inserted by CreateWallet has balance 0,             *)
(* active = true, frozen = false, riskFlagged = false, the user, name,     *)
(* description and reference of the call, and primary = true if and only   *)
(* if its user had no wallet before the call; no stored wallet changes.    *)
(***************************************************************************)
C18_NewWallet ==
    [][(/\ last'.op = "CreateWallet"
        /\ ~\E w \in Existing : /\ wallets[w].UserID = last'.args[1]
                                /\ wallets[w].Reference = last'.args[4])
       => LET new == last'.res
          IN /\ last'.err = NoErr
             /\ new.ID \notin Existing
             /\ DOMAIN wallets' = Existing \cup {new.ID}
             /\ wallets'[new.ID] = new
             /\ \A w \in Existing : wallets'[w] = wallets[w]
             /\ new.UserID = last'.args[1]
             /\ new.Name = last'.args[2]
             /\ new.Description = last'.args[3]
             /\ new.Reference = last'.args[4]
             /\ new.Balance = 0
             /\ new.Active
             /\ ~new.Frozen
             /\ ~new.RiskFlagged
             /\ new.Primary <=> ~\E w \in Existing : wallets[w].UserID = new.UserID]_vars

\* the first wallet of a second user was created primary, like the first user's
C18_Witness ==
    /\ last.op = "CreateWallet"
    /\ last.res.ID = 2
    /\ last.res = wallets[2]
    /\ wallets[2].Primary
    /\ wallets[1].Primary
    /\ wallets[1].UserID # wallets[2].UserID

(***************************************************************************)
(* C19: after a successful SetPrimaryWallet(w2), w2 has primary = true,    *)
(* every other wallet w1 of the same user that had primary = true has      *)
(* primary = false, and no balance, no flag other than primary and no      *)
(* transaction has changed.                                                *)
(***************************************************************************)
C19_PrimaryMoves ==
    [][(last'.op = "SetPrimaryWallet" /\ last'.err = NoErr) =>
        LET w2 == last'.args[1]
        IN /\ wallets'[w2].Primary
           /\ \A w1 \in Existing \ {w2} :
                 (wallets[w1].UserID = wallets[w2].UserID /\ wallets[w1].Primary)
                    => ~wallets'[w1].Primary
           /\ \A w \in Existing :
                 [wallets'[w] EXCEPT !.Primary = FALSE] = [wallets[w] EXCEPT !.Primary = FALSE]
           /\ txns' = txns]_vars

(***************************************************************************)
(* C20: SetPrimaryWallet is all-or-nothing. It fails with WalletNotFound   *)
(* when the target wallet is absent, and when a store call fails (the      *)
(* demotion of the current primary, the promotion of the target, the       *)
(* commit, or a read) it returns an error and the committed wallets are    *)
(* as before: the former primary is still primary and the target still     *)
(* non-primary. A call that returns no error has made the target primary.  *)
(***************************************************************************)
C20_SetPrimaryAllOrNothing ==
    [][last'.op = "SetPrimaryWallet" =>
        /\ (last'.args[1] \notin Existing /\ last'.args[2] # "FindWallet")
              => last'.err = ErrWalletNotFound
        /\ last'.err # NoErr => UNCHANGED <<wallets, txns>>
        /\ (last'.args[1] \in Existing /\ last'.args[2] \in {"UpdateWallet(wallet)", "Commit"})
              => last'.err # NoErr
        /\ last'.err = NoErr => wallets'[last'.args[1]].Primary]_vars

\* the promotion failed after the demotion of the active primary had been written
C20_Witness ==
    /\ last.op = "SetPrimaryWallet"
    /\ last.args[2] = "UpdateWallet(wallet)"
    /\ last.err = StoreFailure
    /\ last.args[1] \in Existing
    /\ ~wallets[last.args[1]].Primary
    /\ \E w1 \in Existing : /\ wallets[w1].UserID = wallets[last.args[1]].UserID
                            /\ wallets[w1].Primary
                            /\ wallets[w1].Active

(***************************************************************************)
(* C21: no partial writes on failure. A call of CreateWallet,              *)
(* SetPrimaryWallet, Credit, Debit, Transfer, CompleteTransaction or       *)
(* CancelTransaction in which a store read, a store write or the commit    *)
(* fails returns an error, and every call that returns an error leaves     *)
(* the committed wallets and transactions as they were before the call.    *)
(***************************************************************************)
UnitOfWorkOps ==
    {"CreateWallet", "SetPrimaryWallet", "Credit", "Debit", "Transfer",
     "CompleteTransaction", "CancelTransaction"}

\* the store call that fails in the call recorded in l
FailingOf(l) == l.args[Len(l.args)]

C21_NoPartialWrites ==
    [][last'.op \in UnitOfWorkOps =>
        /\ last'.err # NoErr => UNCHANGED <<wallets, txns>>
        /\ FailingOf(last') = "Commit" => (last'.err # NoErr \/ UNCHANGED <<wallets, txns>>)
        /\ <<wallets', txns'>> # <<wallets, txns>> => last'.err = NoErr]_vars

\* the transaction insert of a Credit failed after its wallet update had been written
C21_Witness ==
    /\ last.op = "Credit"
    /\ FailingOf(last) = "SaveTransaction"
    /\ last.err = StoreFailure
    /\ last.args[2] > 0
    /\ Usable(last.args[1])
    /\ wallets[last.args[1]].Balance = Replay(last.args[1], Len(txns))

(***************************************************************************)
(* C22: no lost update when the store runs conflicting units of work on a  *)
(* wallet one at a time. Under every interleaving of Credit, Debit and     *)
(* Transfer calls, each balance is the sum of the amounts of the           *)
(* successful credits minus the sum of the amounts of the successful       *)
(* debits on the wallet (transfer legs included) and is never negative;    *)
(* hence two Debits that together exceed the balance do not both succeed.  *)
(***************************************************************************)
C22_NoLostUpdate ==
    \A w \in Existing :
       /\ wallets[w].Balance = Credited(txns, w) - Debited(txns, w)
       /\ wallets[w].Balance >= 0

(***************************************************************************)
(* C23: creation race. The existence check of CreateWallet runs before its *)
(* unit of work and the store has no uniqueness constraint on (userID,     *)
(* reference): a caller that has passed the check inserts its wallet       *)
(* whatever has been inserted since, so two overlapping calls with the     *)
(* same new pair both insert and two wallets hold the pair.                *)
(***************************************************************************)
C23_InsertAfterCheck ==
    [][\A c \in Callers :
          (inflight[c].pc = "CreateWallet.Begin" /\ inflight'[c] = Idle)
          => /\ last'.op = "CreateWallet"
             /\ last'.err = NoErr
             /\ last'.res.ID \notin DOMAIN wallets
             /\ DOMAIN wallets' = DOMAIN wallets \cup {last'.res.ID}
             /\ wallets'[last'.res.ID] = last'.res
             /\ last'.res.UserID = inflight[c].args[1]
             /\ last'.res.Reference = inflight[c].args[4]]_vars

\* two wallets with one (userID, reference), the second just returned by CreateWallet
C23_Witness ==
    /\ last.op = "CreateWallet"
    /\ last.err = NoErr
    /\ last.res.ID \in Existing
    /\ \E w \in Existing \ {last.res.ID} :
          /\ wallets[w].UserID = last.res.UserID
          /\ wallets[w].Reference = last.res.Reference

(***************************************************************************)
(* C24: GetUserWalletSummary(userID) returns the sum of the balances of    *)
(* that user's wallets that are active and not frozen (0 for a user with   *)
(* no such wallet) and changes no state.                                   *)
(***************************************************************************)
\* the user's wallets that count: active and not frozen
Counted(u) == {w \in Existing : wallets[w].UserID = u /\ Usable(w)}

RECURSIVE SumOfBalances(_)
SumOfBalances(ws) ==
    IF ws = {} THEN 0
    ELSE LET w == CHOOSE x \in ws : TRUE
         IN wallets[w].Balance + SumOfBalances(ws \ {w})

TargetField ==
    [UpdateWalletActive |-> "Active", UpdateWalletName |-> "Name",
     UpdateWalletDescription |-> "Description", UpdateWalletReference |-> "Reference",
     FreezeWallet |-> "Frozen", UnfreezeWallet |-> "Frozen",
     FlagWalletRisk |-> "RiskFlagged", ClearWalletRiskFlag |-> "RiskFlagged"]

\* the value it writes there
TargetValue(l) ==
    IF l.op \in {"FreezeWallet", "FlagWalletRisk"} THEN TRUE
    ELSE IF l.op \in {"UnfreezeWallet", "ClearWalletRiskFlag"} THEN FALSE
    ELSE l.args[2]

C25_SingleField ==
    [][(last'.op \in DOMAIN TargetField /\ last'.err = NoErr) =>
        LET w == last'.args[1]
        IN /\ w \in Existing
           /\ DOMAIN wallets' = DOMAIN wallets
           /\ wallets'[w][TargetField[last'.op]] = TargetValue(last')
           /\ \A f \in DOMAIN wallets[w] \ {TargetField[last'.op]} :
                 wallets'[w][f] = wallets[w][f]
           /\ \A o \in Existing \ {w} : wallets'[o] = wallets[o]
           /\ txns' = txns]_vars

\* FreezeWallet froze a primary, active wallet that has a pending transaction, next
\* to another wallet with a balance
C25_Witness ==
    /\ last.op = "FreezeWallet"
    /\ last.err = NoErr
    /\ wallets[last.args[1]].Frozen
    /\ wallets[last.args[1]].Active
    /\ wallets[last.args[1]].Primary
    /\ \E t \in 1..Len(txns) :
          txns[t].WalletID = last.args[1] /\ txns[t].Status = TransactionStatusPending
    /\ \E o \in Existing \ {last.args[1]} : wallets[o].Balance > 0

TakesWalletID ==
    {"SetPrimaryWallet", "UpdateWalletActive", "UpdateWalletName",
     "UpdateWalletDescription", "UpdateWalletReference", "FreezeWallet",
     "UnfreezeWallet", "FlagWalletRisk", "ClearWalletRiskFlag", "Credit", "Debit",
     "Transfer"}

\* the call passed the amount check, if it has one
AmountAccepted(l) ==
    /\ l.op \in {"Credit", "Debit"} => l.args[2] > 0
    /\ l.op = "Transfer" => l.args[3] > 0

C27_WalletNotFoundKind ==
    [][/\ (last'.op \in TakesWalletID /\ AmountAccepted(last')
              /\ last'.args[1] \notin Existing)
          => last'.err = ErrWalletNotFound
       /\ (last'.op = "Debit" /\ AmountAccepted(last') /\ last'.args[1] \in Existing
              /\ ~wallets[last'.args[1]].Active)
          => last'.err = ErrWalletInactive
       /\ (last'.op = "Debit" /\ AmountAccepted(last') /\ last'.args[1] \in Existing
              /\ wallets[last'.args[1]].Active /\ wallets[last'.args[1]].Frozen)
          => last'.err = ErrWalletFrozen]_vars

(***************************************************************************)
(* C28: identity fields are immutable and nothing is deleted. No step      *)
(* changes the id or the user of a stored wallet, nor the id, wallet,      *)
(* type or amount of a stored transaction; CompleteTransaction and         *)
(* CancelTransaction change no field of a transaction other than status,   *)
(* balance, completedAt and failedReason; every stored wallet and          *)
(* transaction is still stored after the step.                             *)
(***************************************************************************)
SettledFields == {"Status", "Balance", "CompletedAt", "FailedReason"}

PrimaryAndActive(u) ==
    {w \in Existing : wallets[w].UserID = u /\ wallets[w].Primary /\ wallets[w].Active}

C29_GetPrimaryWallet ==
    [][last'.op = "GetPrimaryWallet" =>
        /\ last'.err = NoErr
        /\ UNCHANGED <<wallets, txns>>
        /\ IF PrimaryAndActive(last'.args[1]) = {}
           THEN last'.res = NoWallet
           ELSE \E w \in PrimaryAndActive(last'.args[1]) : last'.res = wallets[w]]_vars

\* the lookup returned nothing for a user whose primary wallet is deactivated and
\* who has another, active wallet
C29_Witness ==
    /\ last.op = "GetPrimaryWallet"
    /\ last.res = NoWallet
    /\ \E w \in FindWalletsByUserID(last.args[1]) :
          wallets[w].Primary /\ ~wallets[w].Active
    /\ \E w \in FindWalletsByUserID(last.args[1]) :
          wallets[w].Active /\ ~wallets[w].Primary

(***************************************************************************)
(* C30: Rollback after Commit is a no-op. Every call that returns without  *)
(* error has committed its unit of work and then run its deferred          *)
(* Rollback, and its writes are in the committed content afterwards: the   *)
(* created wallet, the promoted wallet, the new balance and the appended   *)
(* rows, the new status of the transaction.                                *)
(***************************************************************************)
C30_RollbackAfterCommit ==
    [][(last'.op \in UnitOfWorkOps /\ last'.err = NoErr) =>
        LET a == last'.args
        IN /\ last'.op = "CreateWallet"
              => /\ last'.res.ID \in DOMAIN wallets'
                 /\ wallets'[last'.res.ID] = last'.res
           /\ last'.op = "SetPrimaryWallet" => wallets'[a[1]].Primary
           /\ last'.op \in {"Credit", "Debit"}
              => /\ txns' = Append(txns, last'.res)
                 /\ wallets'[a[1]].Balance = last'.res.Balance
                 /\ wallets'[a[1]].Balance # wallets[a[1]].Balance
           /\ last'.op = "Transfer"
              => /\ Len(txns') = Len(txns) + 2
                 /\ wallets'[a[1]].Balance = Sub64(wallets[a[1]].Balance, a[3])
                 /\ wallets'[a[2]].Balance = Add64(wallets[a[2]].Balance, a[3])
           /\ last'.op = "CancelTransaction"
              => /\ txns[a[1]].Status = TransactionStatusPending
                 /\ txns'[a[1]].Status = TransactionStatusCancelled
           /\ last'.op = "CompleteTransaction"
              => /\ txns[a[1]].Status = TransactionStatusPending
                 /\ txns'[a[1]].Status = TransactionStatusCompleted
                 /\ wallets'[txns[a[1]].WalletID].Balance = txns'[a[1]].Balance
                 /\ wallets'[txns[a[1]].WalletID].Balance
                       # wallets[txns[a[1]].WalletID].Balance]_vars

\* a Transfer between two wallets returned without error and its four writes are stored
C30_Witness ==
    /\ last.op = "Transfer"
    /\ last.err = NoErr
    /\ FailingOf(last) = "none"
    /\ Len(txns) >= 3
    /\ txns[Len(txns) - 1].WalletID = last.args[1]
    /\ txns[Len(txns) - 1].Balance = wallets[last.args[1]].Balance
    /\ txns[Len(txns)].WalletID = last.args[2]
    /\ txns[Len(txns)].Balance = wallets[last.args[2]].Balance

(***************************************************************************)
(* C31: unit-of-work visibility. A read inside a unit of work returns the  *)
(* rows that unit of work has written, before it commits; a read outside   *)
(* returns the rows of a unit of work that has committed; no read, inside  *)
(* or outside a unit of work, returns a row of a unit of work that was     *)
(* rolled back: the wallet is reported absent.                             *)
(***************************************************************************)
\* caller c has closed its unit of work this way, with wallet w among its writes
ClosedWith(c, how, w) ==
    /\ inflight[c] # Idle
    /\ inflight[c].pc = how
    /\ w \in DOMAIN Writes(c)

C31_Visibility ==
    [][/\ last'.op = "txn.FindWallet"
          => LET c == last'.args[1]
                 w == last'.args[2]
             IN /\ w \in DOMAIN Writes(c) => last'.res = Writes(c)[w]
                /\ \A o \in Callers : ClosedWith(o, "rolled back", w) => last'.res = NoWallet
       /\ last'.op = "store.FindWallet"
          => LET w == last'.args[1]
             IN /\ \A o \in Callers :
                      ClosedWith(o, "committed", w) => last'.res = Writes(o)[w]
                /\ \A o \in Callers :
                      ClosedWith(o, "rolled back", w) => last'.res = NoWallet]_vars

\* a read outside any unit of work reports absent a wallet saved in a unit of work
\* that was rolled back, while a wallet saved in a committed one is stored
C31_Witness ==
    /\ last.op = "store.FindWallet"
    /\ last.res = NoWallet
    /\ \E c \in Callers : ClosedWith(c, "rolled back", last.args[1])
    /\ \E c \in Callers : \E w \in Existing : ClosedWith(c, "committed", w)

(***************************************************************************)
(* C32: termination and closed units of work. Every call that has begun    *)
(* returns, and when it has returned its unit of work is not open: it is   *)
(* committed exactly when the call returned nil, and rolled back on every  *)
(* error returned after Begin; only a call refused before Begin has none.  *)
(***************************************************************************)
InCall(c) == inflight[c].pc \in {"body", "return"}

Returned(c) == inflight[c].pc = "returned"

C33_TransferConserves ==
    [][last'.op = "Transfer" =>
        SumOfBalances(DOMAIN wallets)' = SumOfBalances(DOMAIN wallets)]_vars

(***************************************************************************)
(* C34: no lost balance update from the mutators. The write that ends a    *)
(* mutator call leaves the balance of every wallet as it finds it, so a    *)
(* balance change committed between the mutator's read and its write       *)
(* survives.                                                               *)
(***************************************************************************)
MutatorOps == {"FreezeWallet", "UpdateWalletDescription"}

C34_BalanceSurvives ==
    [][\A c \in Callers :
          (/\ inflight[c] # Idle
           /\ inflight[c].pc \in MutatorOps
           /\ inflight'[c] = Idle)
          => \A w \in DOMAIN wallets : wallets'[w].Balance = wallets[w].Balance]_vars

(***************************************************************************)
(* C35: freeze persistence. No UnfreezeWallet call is made in SpecStale,   *)
(* so a wallet that FreezeWallet has frozen stays frozen under every       *)
(* interleaving with the calls that were in progress.                      *)
(***************************************************************************)
C35_FreezePersists ==
    [][\A w \in DOMAIN wallets : wallets[w].Frozen => wallets'[w].Frozen]_vars

(***************************************************************************)
(* C36: a pending transaction is resolved at most once. With the store     *)
(* running conflicting units of work one at a time, a CompleteTransaction  *)
(* or CancelTransaction call succeeds only on a transaction that is still  *)
(* pending and leaves it completed or cancelled, and a call that finds it  *)
(* resolved fails with ErrPendingTransactionOnly however the calls         *)
(* overlap; the balance of every wallet is the replay of its completed     *)
(* transactions, so an amount is applied once if its transaction is        *)
(* completed and not at all if it is cancelled.                            *)
(***************************************************************************)
\* caller c returns from its call in this step
Returns(c) == inflight[c] # Idle /\ inflight'[c] = Idle

C36_ResolvedOnce ==
    [][/\ \A c \in Callers :
             (Returns(c) /\ inflight[c].pc \in {"CompleteTransaction", "CancelTransaction"})
             => LET t == inflight[c].args[1]
                IN /\ last'.err = NoErr
                      => /\ PendingTransaction(t)
                         /\ txns'[t].Status
                               = IF inflight[c].pc = "CompleteTransaction"
                                 THEN TransactionStatusCompleted
                                 ELSE TransactionStatusCancelled
                   /\ (t \in StoredTransactions /\ ~PendingTransaction(t))
                      => /\ last'.err = ErrPendingTransactionOnly
                         /\ UNCHANGED <<wallets, txns>>
       /\ \A w \in DOMAIN wallets' : wallets'[w].Balance = Replay(w, Len(txns))']_vars

\* CompleteTransaction has succeeded and applied the amount while a
\* CancelTransaction call on the same transaction is in progress
C36_Witness ==
    /\ last.op = "CompleteTransaction"
    /\ last.err = NoErr
    /\ txns[last.args[1]].Status = TransactionStatusCompleted
    /\ wallets[txns[last.args[1]].WalletID].Balance = txns[last.args[1]].Amount
    /\ \E c \in Callers :
          /\ inflight[c] # Idle
          /\ inflight[c].pc = "CancelTransaction"
          /\ inflight[c].args[1] = last.args[1]

(***************************************************************************)
(* C37: concurrent first-wallet creation. With the store running units of  *)
(* work one at a time, the wallet a CreateWallet call inserts is primary   *)
(* exactly when the user has no wallet at the insert, however the calls    *)
(* overlap; so of the wallets two overlapping calls create for a user      *)
(* without wallets, with different references, exactly one is primary.     *)
(***************************************************************************)
PrimaryWalletsOf(tbl, u) == {w \in DOMAIN tbl : tbl[w].UserID = u /\ tbl[w].Primary}

C37_OneFirstWallet ==
    [][/\ \A c \in Callers :
             (inflight[c].pc = "CreateWallet.Begin" /\ inflight'[c] = Idle)
             => last'.res.Primary = (FindWalletsByUserID(inflight[c].args[1]) = {})
       /\ \A u \in Users :
             (\E w \in DOMAIN wallets' : wallets'[w].UserID = u)
             => Cardinality(PrimaryWalletsOf(wallets', u)) = 1]_vars

\* the first wallet of a user has been inserted as primary while another call for
\* the same user, with another reference, has passed its check and is at its insert
C37_Witness ==
    /\ last.op = "CreateWallet"
    /\ last.res.Primary
    /\ FindWalletsByUserID(last.res.UserID) = {last.res.ID}
    /\ \E c \in Callers :
          /\ inflight[c].pc = "CreateWallet.Begin"
          /\ inflight[c].args[1] = last.res.UserID
          /\ inflight[c].args[4] # last.res.Reference

(***************************************************************************)
(* C38: CompleteTransaction is not gated by the flags of the wallet. It    *)
(* never returns ErrWalletFrozen or ErrWalletInactive; on a pending        *)
(* transaction whose wallet covers it, it succeeds and changes the balance *)
(* of the wallet, frozen or inactive as the wallet may be.                 *)
(***************************************************************************)
\* the wallet of pending transaction t can take it: a credit, or a debit it covers
Completable(t) ==
    /\ PendingTransaction(t)
    /\ txns[t].WalletID \in Existing
    /\ \/ txns[t].Type = TransactionTypeCredit
       \/ wallets[txns[t].WalletID].Balance >= txns[t].Amount

C38_CompleteUngated ==
    [][last'.op = "CompleteTransaction" =>
        /\ ~SameKind(last'.err, ErrWalletFrozen)
        /\ ~SameKind(last'.err, ErrWalletInactive)
        /\ Completable(last'.args[1])
           => LET w == txns[last'.args[1]].WalletID
              IN /\ last'.err = NoErr
                 /\ wallets'[w].Balance # wallets[w].Balance
                 /\ wallets'[w].Frozen = wallets[w].Frozen
                 /\ wallets'[w].Active = wallets[w].Active]_vars

\* a pending credit has been completed on a wallet that is frozen and inactive, and
\* the balance of that wallet has moved
C38_Witness ==
    /\ last.op = "CompleteTransaction"
    /\ last.err = NoErr
    /\ LET t == txns[last.args[1]]
       IN /\ t.Status = TransactionStatusCompleted
          /\ t.Type = TransactionTypeCredit
          /\ wallets[t.WalletID].Frozen
          /\ ~wallets[t.WalletID].Active
          /\ wallets[t.WalletID].Balance = t.Amount

(***************************************************************************)
(* C39: GetPrimaryWallet, called for the user of w right after a           *)
(* successful SetPrimaryWallet(w), returns w, whatever the state of the    *)
(* user's wallets was (w or the wallet that was primary may be inactive).  *)
(***************************************************************************)
C39_LookupAfterSetPrimary ==
    [][(/\ last.op = "SetPrimaryWallet"
        /\ last.err = NoErr
        /\ last'.op = "GetPrimaryWallet"
        /\ last'.args[1] = wallets[last.args[1]].UserID)
       => last'.res = wallets[last.args[1]]]_vars

(***************************************************************************)
(* C40: crediting never decreases a balance. A successful Credit with      *)
(* amount a > 0 on a wallet with balance b leaves the balance at b + a, a  *)
(* mathematical integer, so above b; likewise the credit leg of a Transfer *)
(* to another wallet and CompleteTransaction of a pending credit; the      *)
(* balance never wraps around.                                             *)
(***************************************************************************)
C40_CreditNeverWraps ==
    [][/\ (last'.op = "Credit" /\ last'.err = NoErr)
          => wallets'[last'.args[1]].Balance
                = wallets[last'.args[1]].Balance + last'.args[2]
       /\ (last'.op = "Transfer" /\ last'.err = NoErr /\ last'.args[1] # last'.args[2])
          => wallets'[last'.args[2]].Balance
                = wallets[last'.args[2]].Balance + last'.args[3]
       /\ (last'.op = "CompleteTransaction" /\ last'.err = NoErr
              /\ txns[last'.args[1]].Type = TransactionTypeCredit)
          => wallets'[txns[last'.args[1]].WalletID].Balance
                = wallets[txns[last'.args[1]].WalletID].Balance
                     + txns[last'.args[1]].Amount]_vars
====
